---- MODULE Spec2Model ----
(***************************************************************************)
(* A model of the editing engine of an_editor: the dual gap buffer         *)
(* (src/src/line_gap_buffer.rs) and the cursor / selection / undo layer    *)
(* built on it (src/src/view_state.rs), and of the window procedure that   *)
(* drives them (src/src/main.rs).                                          *)
(*                                                                         *)
(* Positions are 0-based as in the source; TLA+ sequences are 1-based, so  *)
(* vec[i] of the source is seq[i + 1] here.  A Vec is a sequence whose     *)
(* last element is the top: push is Append, pop removes the last element.  *)
(***************************************************************************)
EXTENDS Integers, Sequences, FiniteSets, TLC

VARIABLES
    buf,          \* the LineGapBuffer<()> of test::stuff, driven directly
    view_state,   \* the ViewState (AppState::view_state), a record of its fields
    panicked,     \* an assert! of the source has failed: the process is gone
    last,         \* history: the last call made and what it was given
    hist,         \* history: where a run of calls that a claim speaks of stands
    app_state,    \* the other fields of AppState: filename, flash, last_action
    wnd_proc      \* the RefCell around AppState and the calls of my_window_proc
                  \* that have not returned yet

vars == <<buf, view_state, panicked, last, hist, app_state, wnd_proc>>

----------------------------------------------------------------------------
(* Bounds and alphabet *)

\* the longest text the model lets a direct buffer call produce
BufMaxLen == 3
\* the longest new_content handed to one direct buffer call
BufMaxIns == 2

NL == "\n"
Alphabet == {"a", "b", NL}

\* every text of at most n characters
Texts(n) == UNION {[1..k -> Alphabet] : k \in 0..n}

Min(a, b) == IF a < b THEN a ELSE b
Max(a, b) == IF a > b THEN a ELSE b

----------------------------------------------------------------------------
(* LineGapBuffer *)

\* T::default() for T = Option<TextLayout>
NoData == <<>>

Line(start, end, data) == [start |-> start, end |-> end, data |-> data]

new_buffer ==
    [chars_left |-> <<>>, chars_right |-> <<>>,
     lines_left |-> <<Line(0, 0, NoData)>>, lines_right |-> <<>>]

len(b) == Len(b.chars_left) + Len(b.chars_right)

num_lines(b) == Len(b.lines_left) + Len(b.lines_right)

get_char(b, pos) ==
    IF pos < Len(b.chars_left)
    THEN b.chars_left[pos + 1]
    ELSE b.chars_right[(len(b) - 1 - pos) + 1]

slice_string_pre(b, start, end) == start <= end /\ end <= len(b)

slice_string(b, start, end) ==
    [k \in 1..(end - start) |-> get_char(b, start + k - 1)]

get_line_pre(b, line_no) == line_no >= 0 /\ line_no < num_lines(b)

get_line(b, line_no) ==
    IF line_no < Len(b.lines_left)
    THEN b.lines_left[line_no + 1]
    ELSE LET counted(line) ==
                 Line(len(b) - line.start, len(b) - line.end, line.data)
         IN  counted(b.lines_right[(num_lines(b) - 1 - line_no) + 1])

\* the write *get_line_mut(line_no).data = data
get_line_mut(b, line_no, data) ==
    IF line_no < Len(b.lines_left)
    THEN [b EXCEPT !.lines_left[line_no + 1].data = data]
    ELSE [b EXCEPT !.lines_right[(num_lines(b) - 1 - line_no) + 1].data = data]

\* the while loop of find_line: the pair <<left, right>> it ends with
RECURSIVE find_line_loop(_, _, _, _)
find_line_loop(b, pos, left, right) ==
    IF right - left > 1
    THEN LET mid == left + ((right - left) \div 2)
         IN  IF pos < get_line(b, mid).start
             THEN find_line_loop(b, pos, left, mid)
             ELSE find_line_loop(b, pos, mid, right)
    ELSE <<left, right>>

find_line(b, pos) == find_line_loop(b, pos, 0, num_lines(b))[1]

\* the three assert!s of find_line
find_line_pre(b, pos) == pos <= len(b)

find_line_asserts(b, pos) ==
    LET within(line) == line.start <= pos /\ pos <= line.end
        ended(lr) ==
            /\ lr[1] + 1 = lr[2]
            /\ get_line_pre(b, lr[1])
            /\ within(get_line(b, lr[1]))
    IN  /\ find_line_pre(b, pos)
        /\ ended(find_line_loop(b, pos, 0, num_lines(b)))

RECURSIVE move_char_gap_left_only(_, _)
move_char_gap_left_only(b, pos) ==
    IF Len(b.chars_left) > pos
    THEN move_char_gap_left_only(
            [b EXCEPT !.chars_right = Append(@, b.chars_left[Len(b.chars_left)]),
                      !.chars_left = SubSeq(@, 1, Len(@) - 1)], pos)
    ELSE b

RECURSIVE move_char_gap(_, _)
move_char_gap(b, pos) ==
    IF Len(b.chars_left) > pos
    THEN move_char_gap(
            [b EXCEPT !.chars_right = Append(@, b.chars_left[Len(b.chars_left)]),
                      !.chars_left = SubSeq(@, 1, Len(@) - 1)], pos)
    ELSE IF Len(b.chars_left) < pos
    THEN move_char_gap(
            [b EXCEPT !.chars_left = Append(@, b.chars_right[Len(b.chars_right)]),
                      !.chars_right = SubSeq(@, 1, Len(@) - 1)], pos)
    ELSE b

Flip_keeps_offsets(n, line) == line

\* start and end of a line record counted from the other end of the text
Flip(n, line) == Line(n - line.start, n - line.end, line.data)

RECURSIVE move_line_gap(_, _)
move_line_gap(b, pos) ==
    IF Len(b.lines_left) > pos
    THEN move_line_gap(
            [b EXCEPT !.lines_right =
                          Append(@, Flip(len(b), b.lines_left[Len(b.lines_left)])),
                      !.lines_left = SubSeq(@, 1, Len(@) - 1)], pos)
    ELSE IF Len(b.lines_left) < pos
    THEN move_line_gap(
            [b EXCEPT !.lines_left =
                          Append(@, Flip(len(b), b.lines_right[Len(b.lines_right)])),
                      !.lines_right = SubSeq(@, 1, Len(@) - 1)], pos)
    ELSE b

\* Vec::truncate(n)
truncate(v, n) == IF n < Len(v) THEN SubSeq(v, 1, n) ELSE v

RECURSIVE rescan_from_newline(_, _, _, _)
rescan_from_newline(b, t, i, right) ==
    IF i < right
    THEN IF get_char(b, i) = NL
         THEN rescan_from_newline(
                 [b EXCEPT !.lines_left = Append(@, Line(t, i, NoData))],
                 i, i + 1, right)
         ELSE rescan_from_newline(b, t, i + 1, right)
    ELSE [b EXCEPT !.lines_left = Append(@, Line(t, right, NoData))]

\* the for loop of replace_slice that splits [i, right) on '\n';
\* t is the start of the line being scanned
RECURSIVE rescan(_, _, _, _)
rescan(b, t, i, right) ==
    IF i < right
    THEN IF get_char(b, i) = NL
         THEN rescan([b EXCEPT !.lines_left = Append(@, Line(t, i, NoData))],
                     i + 1, i + 1, right)
         ELSE rescan(b, t, i + 1, right)
    ELSE [b EXCEPT !.lines_left = Append(@, Line(t, right, NoData))]

\* every assert! reached by replace_slice(start, end, _) passes
replace_slice_asserts(b, start, end) ==
    /\ start <= end /\ end <= len(b)
    /\ find_line_asserts(b, start)
    /\ find_line_asserts(b, end)

replace_slice_drops_payloads(b, start, end, new_slice) ==
    LET line_left == find_line(b, start)
        line_right == find_line(b, end) + 1
        recompute_left == get_line(b, line_left).start
        recompute_right ==
            (get_line(b, line_right - 1).end - (end - start)) + Len(new_slice)
        b1 == move_line_gap(b, line_left)
        b2 == [b1 EXCEPT !.lines_right =
                  [i \in 1..(Len(@) - (line_right - line_left)) |->
                      Line(@[i].start, @[i].end, NoData)]]
        b3 == move_char_gap(b2, start)
        b4 == [b3 EXCEPT !.chars_right = truncate(@, Len(@) - (end - start))]
        b5 == [b4 EXCEPT !.chars_left = @ \o new_slice]
    IN  rescan(b5, recompute_left, recompute_left, recompute_right)

replace_slice(b, start, end, new_slice) ==
    LET line_left == find_line(b, start)
        line_right == find_line(b, end) + 1
        recompute_left == get_line(b, line_left).start
        recompute_right ==
            (get_line(b, line_right - 1).end - (end - start)) + Len(new_slice)
        b1 == move_line_gap(b, line_left)
        b2 == [b1 EXCEPT !.lines_right =
                  truncate(@, Len(@) - (line_right - line_left))]
        b3 == move_char_gap(b2, start)
        b4 == [b3 EXCEPT !.chars_right = truncate(@, Len(@) - (end - start))]
        b5 == [b4 EXCEPT !.chars_left = @ \o new_slice]
    IN  rescan(b5, recompute_left, recompute_left, recompute_right)

\* test::line_ranges
line_ranges(b) ==
    [i \in 1..num_lines(b) |->
        <<get_line(b, i - 1).start, get_line(b, i - 1).end>>]

----------------------------------------------------------------------------
(* TextLayout: the line shaper.  DirectWrite is taken as a fixed-pitch     *)
(* shaper that breaks a line after as many characters as fit max_width (at *)
(* least one); a text_format is the width of its characters, and its line  *)
(* height is twice that, so that half a line height is a whole number.     *)

CharWidth(text_format) == text_format
LineHeight(text_format) == 2 * text_format

\* the lengths of the sub-lines DirectWrite breaks n characters into
GetLineMetrics(n, per) ==
    [i \in 1..(IF n = 0 THEN 1 ELSE (n + per - 1) \div per) |->
        Min(per, n - (i - 1) * per)]

TextLayout_new(text, text_format, max_width) ==
    LET shaped(line_metrics) ==
            [text |-> text, text_format |-> text_format,
             max_width |-> max_width,
             height |-> Len(line_metrics) * LineHeight(text_format),
             line_height |-> LineHeight(text_format),
             line_metrics |-> line_metrics]
    IN  shaped(GetLineMetrics(Len(text),
                              Max(1, max_width \div CharWidth(text_format))))

\* the Vec line_boundaries returns: 0, then the running sum of the lengths
RECURSIVE line_boundaries_loop(_, _, _)
line_boundaries_loop(line_metrics, i, result) ==
    IF i <= Len(line_metrics)
    THEN line_boundaries_loop(line_metrics, i + 1,
                              Append(result, result[Len(result)] + line_metrics[i]))
    ELSE result

line_boundaries(layout) == line_boundaries_loop(layout.line_metrics, 1, <<0>>)

\* the sub-line (0-based) HitTestTextPosition puts the leading edge of
\* position pos on: the last one that starts at or before pos
SubLineOf(bounds, pos) ==
    CHOOSE i \in 0..(Len(bounds) - 2) :
        /\ bounds[i + 1] <= pos
        /\ \A j \in (i + 1)..(Len(bounds) - 2) : bounds[j + 1] > pos

cursor_coords(layout, pos) ==
    LET on(bounds, i) ==
            [x |-> (pos - bounds[i + 1]) * CharWidth(layout.text_format),
             y |-> i * layout.line_height]
        within(bounds) == on(bounds, SubLineOf(bounds, pos))
    IN  within(line_boundaries(layout))

\* HitTestPoint: the sub-line under y (the first above, the last below), and
\* in it the caret position nearest to x
coords_to_pos(layout, x, y) ==
    LET in_line(i, cw) ==
            line_boundaries(layout)[i + 1]
            + Max(0, Min(layout.line_metrics[i + 1],
                         (2 * x + cw) \div (2 * cw)))
    IN  in_line(Max(0, Min(Len(layout.line_metrics) - 1,
                           y \div layout.line_height)),
                CharWidth(layout.text_format))

----------------------------------------------------------------------------
(* ViewState: cursor, selection, viewport and undo over the buffer *)

\* Option<T>: None, Some(x)
None == <<>>
Some(x) == <<x>>

\* Vec: the last element, and the vector without it
top(v) == v[Len(v)]
pop(v) == SubSeq(v, 1, Len(v) - 1)

SliceEdit(old_text, start, end) ==
    [old_text |-> old_text, start |-> start, end |-> end]

UndoSnapshot(slice_edit_count, cursor_pos) ==
    [slice_edit_count |-> slice_edit_count, cursor_pos |-> cursor_pos]

\* char::is_whitespace and char::is_alphanumeric on the characters in use
is_whitespace(c) == c \in {" ", NL}
is_alphanumeric(c) == c \in {"a", "b"}

ViewState_new(width, height, text_format) ==
    [width |-> width,
     height |-> height,
     text_format |-> text_format,
     document |-> new_buffer,
     cursor_pos |-> 0,
     selection_pos |-> 0,
     anchor_pos |-> 0,
     anchor_y |-> 0,
     anchor_x |-> 0,
     undo_slice_edits |-> <<>>,
     undo_snapshots |-> <<>>,
     redo_slice_edits |-> <<>>,
     redo_snapshots |-> <<>>,
     unmodified_snapshot |-> Some(0),
     panicked |-> FALSE]

\* a failed assert! unwinds out of the call
Panic(vs) == [vs EXCEPT !.panicked = TRUE]

\* every line's layout slot emptied (resize, change_text_format)
RECURSIVE clear_layouts(_, _)
clear_layouts(b, i) ==
    IF i < num_lines(b) THEN clear_layouts(get_line_mut(b, i, NoData), i + 1)
    ELSE b

change_text_format(vs, text_format) ==
    [vs EXCEPT !.text_format = text_format,
               !.document = clear_layouts(vs.document, 0)]

\* self.method(args): the methods of ViewState call one another through self
RECURSIVE self(_, _)

ensure_layout(vs, line_no) ==
    IF vs.panicked THEN vs
    ELSE IF ~get_line_pre(vs.document, line_no) THEN Panic(vs)
    ELSE LET shaped(line) ==
                 IF line.data = NoData
                 THEN [vs EXCEPT !.document =
                          get_line_mut(@, line_no,
                              Some(TextLayout_new(
                                  slice_string(vs.document, line.start,
                                               line.end),
                                  vs.text_format, vs.width)))]
                 ELSE vs
         IN  shaped(get_line(vs.document, line_no))

\* line.data.as_ref().unwrap() after ensure_layout(line_no)
layout_of(vs, line_no) == get_line(vs.document, line_no).data[1]

\* the for loop of vertical_offset
RECURSIVE vertical_offset_loop(_, _, _, _)
vertical_offset_loop(vs, i, line_no2, result) ==
    IF vs.panicked THEN [vs |-> vs, result |-> 0]
    ELSE IF i < line_no2
    THEN LET shaped(v1) ==
                 vertical_offset_loop(v1, i + 1, line_no2,
                     IF v1.panicked THEN 0
                     ELSE result + layout_of(v1, i).height)
         IN  shaped(self("ensure_layout", <<vs, i>>))
    ELSE [vs |-> vs, result |-> result]

vertical_offset(vs, line_no1, line_no2) ==
    LET signed(r) ==
            [vs |-> r.vs,
             result |-> IF line_no1 > line_no2 THEN 0 - r.result ELSE r.result]
    IN  signed(vertical_offset_loop(vs, Min(line_no1, line_no2),
                                    Max(line_no1, line_no2), 0))

anchor_line_and_y(vs) ==
    LET none(v) == [vs |-> v, anchor_line |-> 0, anchor_line_y |-> 0]
        shaped(v2, anchor_line) ==
            IF v2.panicked THEN none(v2)
            ELSE [vs |-> v2, anchor_line |-> anchor_line,
                  anchor_line_y |->
                      v2.anchor_y
                      - cursor_coords(
                            layout_of(v2, anchor_line),
                            v2.anchor_pos
                            - get_line(v2.document, anchor_line).start).y]
        on_line(v1, anchor_line) ==
            shaped(self("ensure_layout", <<v1, anchor_line>>), anchor_line)
        clamped(v1) ==
            IF ~find_line_asserts(v1.document, v1.anchor_pos)
            THEN none(Panic(v1))
            ELSE on_line(v1, find_line(v1.document, v1.anchor_pos))
    IN  IF vs.panicked THEN none(vs)
        ELSE clamped([vs EXCEPT !.anchor_pos = Min(@, len(vs.document))])

\* the first while loop of lines_on_screen: up to the line that reaches y = 0
RECURSIVE lines_on_screen_above(_, _, _)
lines_on_screen_above(vs, i, y) ==
    IF ~vs.panicked /\ i > 0 /\ y > 0
    THEN LET shaped(v1) ==
                 IF v1.panicked THEN [vs |-> v1, i |-> i, y |-> y]
                 ELSE lines_on_screen_above(v1, i - 1,
                                            y - layout_of(v1, i - 1).height)
         IN  shaped(self("ensure_layout", <<vs, i - 1>>))
    ELSE [vs |-> vs, i |-> i, y |-> y]

\* the second while loop: past the lines that end at or above y = 0
RECURSIVE lines_on_screen_first(_, _, _)
lines_on_screen_first(vs, i, y) ==
    IF ~vs.panicked /\ i < num_lines(vs.document)
    THEN LET shaped(v1) ==
                 IF v1.panicked \/ y + layout_of(v1, i).height > 0
                 THEN [vs |-> v1, i |-> i, y |-> y]
                 ELSE lines_on_screen_first(v1, i + 1,
                                            y + layout_of(v1, i).height)
         IN  shaped(self("ensure_layout", <<vs, i>>))
    ELSE [vs |-> vs, i |-> i, y |-> y]

\* the third while loop: the lines that start above y = height
RECURSIVE lines_on_screen_last(_, _, _)
lines_on_screen_last(vs, i, y) ==
    IF ~vs.panicked /\ i < num_lines(vs.document) /\ y < vs.height
    THEN LET shaped(v1) ==
                 IF v1.panicked THEN [vs |-> v1, i |-> i, y |-> y]
                 ELSE lines_on_screen_last(v1, i + 1,
                                           y + layout_of(v1, i).height)
         IN  shaped(self("ensure_layout", <<vs, i>>))
    ELSE [vs |-> vs, i |-> i, y |-> y]

lines_on_screen(vs, line_no, line_y) ==
    LET to_end(b, c) ==
            [vs |-> c.vs, start_y |-> b.y, start_line |-> b.i,
             end_line |-> c.i]
        from_start(b) == to_end(b, lines_on_screen_last(b.vs, b.i, b.y))
        from_top(a) == from_start(lines_on_screen_first(a.vs, a.i, a.y))
    IN  from_top(lines_on_screen_above(vs, line_no, line_y))

pos_to_coord(vs, pos) ==
    LET none(v) == [vs |-> v, x |-> 0, y |-> 0]
        at(a, vo, c) ==
            [vs |-> vo.vs, x |-> c.x,
             y |-> a.anchor_line_y + vo.result + c.y]
        summed(a, line_no, vo) ==
            IF vo.vs.panicked THEN none(vo.vs)
            ELSE at(a, vo,
                    cursor_coords(
                        layout_of(vo.vs, line_no),
                        pos - get_line(vo.vs.document, line_no).start))
        on_line(a, line_no) ==
            summed(a, line_no,
                   self("vertical_offset", <<self("ensure_layout", <<a.vs, line_no>>),
                                   a.anchor_line, line_no>>))
        anchored(a) ==
            IF a.vs.panicked THEN none(a.vs)
            ELSE IF ~find_line_asserts(a.vs.document, pos)
            THEN none(Panic(a.vs))
            ELSE on_line(a, find_line(a.vs.document, pos))
    IN  anchored(self("anchor_line_and_y", <<vs>>))

\* the two for loops of anchor_to_top: line line_no, its k-th boundary
RECURSIVE anchor_to_top_loop(_, _, _, _)
anchor_to_top_loop(vs, line_no, line_no2, k) ==
    IF vs.panicked \/ line_no >= line_no2 THEN vs
    ELSE LET tried(p, b) ==
                 IF p.vs.panicked THEN p.vs
                 ELSE IF p.y >= 0
                 THEN [p.vs EXCEPT !.anchor_pos = b, !.anchor_y = p.y]
                 ELSE anchor_to_top_loop(p.vs, line_no, line_no2, k + 1)
             at(v1, b) == tried(self("pos_to_coord", <<v1, b>>), b)
             bounded(v1, bounds) ==
                 IF k >= Len(bounds) - 1
                 THEN anchor_to_top_loop(v1, line_no + 1, line_no2, 0)
                 ELSE at(v1, get_line(v1.document, line_no).start
                             + bounds[k + 1])
             shaped(v1) ==
                 IF v1.panicked THEN v1
                 ELSE bounded(v1, line_boundaries(layout_of(v1, line_no)))
         IN  shaped(self("ensure_layout", <<vs, line_no>>))

anchor_to_top(vs) ==
    LET on_screen(l) == anchor_to_top_loop(l.vs, l.start_line, l.end_line, 0)
        anchored(a) ==
            on_screen(self("lines_on_screen", <<a.vs, a.anchor_line, a.anchor_line_y>>))
    IN  anchored(self("anchor_line_and_y", <<vs>>))

\* a clip_scroll_position_to_document that looks at the end of the text only
clip_scroll_position_to_document_end_only(vs) ==
    LET bottom(p) ==
            IF p.vs.panicked \/ p.y >= 0 THEN p.vs
            ELSE [p.vs EXCEPT !.anchor_y = @ - p.y]
        clipped(l) ==
            IF l.vs.panicked THEN l.vs
            ELSE IF l.start_y <= 0 /\ l.end_line = num_lines(l.vs.document)
            THEN bottom(self("pos_to_coord", <<l.vs, len(l.vs.document)>>))
            ELSE l.vs
        anchored(a) ==
            clipped(self("lines_on_screen", <<a.vs, a.anchor_line, a.anchor_line_y>>))
    IN  self("anchor_to_top", <<anchored(self("anchor_line_and_y", <<vs>>))>>)

clip_scroll_position_to_document(vs) ==
    LET bottom(p) ==
            IF p.vs.panicked \/ p.y >= 0 THEN p.vs
            ELSE [p.vs EXCEPT !.anchor_y = @ - p.y]
        clipped(l) ==
            IF l.vs.panicked THEN l.vs
            ELSE IF l.start_y > 0
            THEN IF l.start_line # 0 THEN Panic(l.vs)
                 ELSE [l.vs EXCEPT !.anchor_y = @ - l.start_y]
            ELSE IF l.end_line = num_lines(l.vs.document)
            THEN bottom(self("pos_to_coord", <<l.vs, len(l.vs.document)>>))
            ELSE l.vs
        anchored(a) ==
            clipped(self("lines_on_screen", <<a.vs, a.anchor_line, a.anchor_line_y>>))
    IN  self("anchor_to_top", <<anchored(self("anchor_line_and_y", <<vs>>))>>)

\* an ensure_cursor_on_screen that looks above the window only
ensure_cursor_on_screen_above_only(vs) ==
    LET above(v1, y) ==
            IF y < 0
            THEN [v1 EXCEPT !.anchor_pos = v1.cursor_pos, !.anchor_y = 0]
            ELSE v1
        placed(p) == IF p.vs.panicked THEN p.vs ELSE above(p.vs, p.y)
    IN  self("clip_scroll_position_to_document", <<
            placed(self("pos_to_coord", <<vs, vs.cursor_pos>>))>>)

ensure_cursor_on_screen(vs) ==
    LET below(v2, y, line_height) ==
            IF y + line_height > v2.height
            THEN [v2 EXCEPT !.anchor_pos = v2.cursor_pos,
                            !.anchor_y = v2.height - line_height]
            ELSE v2
        above(v1, y, line_height) ==
            below(IF y < 0
                  THEN [v1 EXCEPT !.anchor_pos = v1.cursor_pos, !.anchor_y = 0]
                  ELSE v1,
                  y, line_height)
        shaped(v1, y, i) ==
            IF v1.panicked THEN v1
            ELSE above(v1, y, layout_of(v1, i).line_height)
        on_line(p, i) == shaped(self("ensure_layout", <<p.vs, i>>), p.y, i)
        placed(p) ==
            IF p.vs.panicked THEN p.vs
            ELSE on_line(p, find_line(p.vs.document, p.vs.cursor_pos))
    IN  self("clip_scroll_position_to_document", <<
            placed(self("pos_to_coord", <<vs, vs.cursor_pos>>))>>)

\* self.anchor_x = self.pos_to_coord(self.cursor_pos).0
set_anchor_x(vs) ==
    LET at(p) == IF p.vs.panicked THEN p.vs ELSE [p.vs EXCEPT !.anchor_x = p.x]
    IN  at(self("pos_to_coord", <<vs, vs.cursor_pos>>))

\* a replace_slice_and_get_edit that does not compare the slice with the
\* text: it always edits, and always returns a SliceEdit
replace_slice_and_get_edit_always(vs, start, end, text) ==
    IF ~slice_string_pre(vs.document, start, end)
    THEN [vs |-> Panic(vs), edit |-> None]
    ELSE IF ~replace_slice_asserts(vs.document, start, end)
    THEN [vs |-> Panic(vs), edit |-> None]
    ELSE [vs |-> [vs EXCEPT !.document = replace_slice(@, start, end, text)],
          edit |-> Some(SliceEdit(slice_string(vs.document, start, end),
                                  start, start + Len(text)))]

\* a replace_slice_and_get_edit whose SliceEdit ends where the replaced
\* range ended, not where the new text ends
replace_slice_and_get_edit_old_end(vs, start, end, text) ==
    IF ~slice_string_pre(vs.document, start, end)
    THEN [vs |-> Panic(vs), edit |-> None]
    ELSE IF slice_string(vs.document, start, end) = text
    THEN [vs |-> vs, edit |-> None]
    ELSE IF ~replace_slice_asserts(vs.document, start, end)
    THEN [vs |-> Panic(vs), edit |-> None]
    ELSE [vs |-> [vs EXCEPT !.document = replace_slice(@, start, end, text)],
          edit |-> Some(SliceEdit(slice_string(vs.document, start, end),
                                  start, end))]

\* the ViewState left by the call and the Option<SliceEdit> it returns
replace_slice_and_get_edit(vs, start, end, text) ==
    IF ~slice_string_pre(vs.document, start, end)
    THEN [vs |-> Panic(vs), edit |-> None]
    ELSE IF slice_string(vs.document, start, end) = text
    THEN [vs |-> vs, edit |-> None]
    ELSE IF ~replace_slice_asserts(vs.document, start, end)
    THEN [vs |-> Panic(vs), edit |-> None]
    ELSE [vs |-> [vs EXCEPT !.document = replace_slice(@, start, end, text)],
          edit |-> Some(SliceEdit(slice_string(vs.document, start, end),
                                  start, start + Len(text)))]

\* a ViewState::replace_slice without its assertion
ViewState_replace_slice_unasserted(vs, start, end, text) ==
    LET logged(u) ==
            IF u.vs.panicked THEN u.vs
            ELSE [u.vs EXCEPT !.undo_slice_edits = @ \o u.edit]
    IN  logged(replace_slice_and_get_edit(vs, start, end, text))

ViewState_replace_slice(vs, start, end, text) ==
    LET logged(u) ==
            IF u.vs.panicked THEN u.vs
            ELSE IF u.vs.undo_snapshots = <<>> THEN Panic(u.vs)
            ELSE [u.vs EXCEPT !.undo_slice_edits = @ \o u.edit]
    IN  logged(replace_slice_and_get_edit(vs, start, end, text))

modified(vs) == vs.unmodified_snapshot # Some(Len(vs.undo_snapshots))

\* a make_undo_snapshot that clears the redo stacks before it looks at the
\* top snapshot
make_undo_snapshot_clears_first(vs) ==
    IF /\ vs.undo_snapshots # <<>>
       /\ top(vs.undo_snapshots).cursor_pos = vs.cursor_pos
       /\ top(vs.undo_snapshots).slice_edit_count = Len(vs.undo_slice_edits)
    THEN [vs EXCEPT !.redo_snapshots = <<>>, !.redo_slice_edits = <<>>]
    ELSE LET v1 == [vs EXCEPT
                      !.undo_snapshots =
                          Append(@, UndoSnapshot(Len(vs.undo_slice_edits),
                                                 vs.cursor_pos)),
                      !.redo_snapshots = <<>>,
                      !.redo_slice_edits = <<>>]
         IN  IF /\ v1.unmodified_snapshot # None
                /\ v1.unmodified_snapshot[1] > Len(v1.redo_snapshots)
             THEN [v1 EXCEPT !.unmodified_snapshot = None]
             ELSE v1

\* a make_undo_snapshot that clears redo_snapshots and leaves
\* redo_slice_edits as it is
make_undo_snapshot_keeps_redo_edits(vs) ==
    IF /\ vs.undo_snapshots # <<>>
       /\ top(vs.undo_snapshots).cursor_pos = vs.cursor_pos
       /\ top(vs.undo_snapshots).slice_edit_count = Len(vs.undo_slice_edits)
    THEN vs
    ELSE LET v1 == [vs EXCEPT
                      !.undo_snapshots =
                          Append(@, UndoSnapshot(Len(vs.undo_slice_edits),
                                                 vs.cursor_pos)),
                      !.redo_snapshots = <<>>]
         IN  IF /\ v1.unmodified_snapshot # None
                /\ v1.unmodified_snapshot[1] > Len(v1.redo_snapshots)
             THEN [v1 EXCEPT !.unmodified_snapshot = None]
             ELSE v1

make_undo_snapshot(vs) ==
    IF /\ vs.undo_snapshots # <<>>
       /\ top(vs.undo_snapshots).cursor_pos = vs.cursor_pos
       /\ top(vs.undo_snapshots).slice_edit_count = Len(vs.undo_slice_edits)
    THEN vs
    ELSE LET v1 == [vs EXCEPT
                      !.undo_snapshots =
                          Append(@, UndoSnapshot(Len(vs.undo_slice_edits),
                                                 vs.cursor_pos)),
                      !.redo_snapshots = <<>>,
                      !.redo_slice_edits = <<>>]
         IN  IF /\ v1.unmodified_snapshot # None
                /\ v1.unmodified_snapshot[1] > Len(v1.redo_snapshots)
             THEN [v1 EXCEPT !.unmodified_snapshot = None]
             ELSE v1

can_undo(vs) == vs.undo_snapshots # <<>>

clear_selection(vs) == [vs EXCEPT !.selection_pos = vs.cursor_pos]

\* an undo that reverse-applies one SliceEdit and stops
undo_loop_once(vs, slice_edit_count) ==
    IF Len(vs.undo_slice_edits) > slice_edit_count
    THEN LET reverted(re) ==
                 IF re.vs.panicked THEN re.vs
                 ELSE [re.vs EXCEPT !.redo_slice_edits = @ \o re.edit]
             popped(e) ==
                 reverted(replace_slice_and_get_edit(
                              [vs EXCEPT !.undo_slice_edits = pop(@)],
                              e.start, e.end, e.old_text))
         IN  popped(top(vs.undo_slice_edits))
    ELSE vs

\* the while loop of undo
RECURSIVE undo_loop(_, _)
undo_loop(vs, slice_edit_count) ==
    IF Len(vs.undo_slice_edits) > slice_edit_count
    THEN LET reverted(re) ==
                 IF re.vs.panicked THEN re.vs
                 ELSE undo_loop(
                          [re.vs EXCEPT !.redo_slice_edits = @ \o re.edit],
                          slice_edit_count)
             popped(e) ==
                 reverted(replace_slice_and_get_edit(
                              [vs EXCEPT !.undo_slice_edits = pop(@)],
                              e.start, e.end, e.old_text))
         IN  popped(top(vs.undo_slice_edits))
    ELSE vs

\* an undo that pushes the redo snapshot before it looks at undo_snapshots
undo_pushes_redo_first(vs) ==
    LET pushed ==
            [vs EXCEPT
               !.redo_snapshots =
                   Append(@, UndoSnapshot(Len(vs.redo_slice_edits),
                                          vs.cursor_pos))]
        reverted(v2, cursor_pos) ==
            IF v2.panicked THEN v2
            ELSE clear_selection([v2 EXCEPT !.cursor_pos = cursor_pos])
        popped(snap) ==
            reverted(
                undo_loop([pushed EXCEPT !.undo_snapshots = pop(@)],
                          snap.slice_edit_count),
                snap.cursor_pos)
    IN  self("ensure_cursor_on_screen", <<
            IF vs.undo_snapshots # <<>> THEN popped(top(vs.undo_snapshots))
            ELSE pushed>>)

undo(vs) ==
    LET reverted(v2, cursor_pos) ==
            IF v2.panicked THEN v2
            ELSE clear_selection([v2 EXCEPT !.cursor_pos = cursor_pos])
        popped(snap) ==
            reverted(
                undo_loop(
                    [vs EXCEPT
                       !.undo_snapshots = pop(@),
                       !.redo_snapshots =
                           Append(@, UndoSnapshot(Len(vs.redo_slice_edits),
                                                  vs.cursor_pos))],
                    snap.slice_edit_count),
                snap.cursor_pos)
    IN  self("ensure_cursor_on_screen", <<
            IF vs.undo_snapshots # <<>> THEN popped(top(vs.undo_snapshots))
            ELSE vs>>)

can_redo(vs) == vs.redo_snapshots # <<>>

\* a redo that swaps the snapshot stacks and leaves the edit logs in place
swap_snapshots_only(vs) ==
    [vs EXCEPT !.undo_snapshots = vs.redo_snapshots,
               !.redo_snapshots = vs.undo_snapshots]

\* the two std::mem::swap calls of redo
swap_undo_redo(vs) ==
    [vs EXCEPT !.undo_snapshots = vs.redo_snapshots,
               !.redo_snapshots = vs.undo_snapshots,
               !.undo_slice_edits = vs.redo_slice_edits,
               !.redo_slice_edits = vs.undo_slice_edits]

redo(vs) == swap_undo_redo(undo(swap_undo_redo(vs)))

\* a load that leaves cursor_pos and selection_pos where they were
load_keeps_cursor(vs, text, initially_modified) ==
    LET replaced(d1) ==
            [vs EXCEPT
               !.document = replace_slice(d1, 0, 0, <<>>),
               !.undo_snapshots = <<>>,
               !.undo_slice_edits = <<>>,
               !.redo_snapshots = <<>>,
               !.redo_slice_edits = <<>>,
               !.anchor_pos = 0,
               !.anchor_y = 0,
               !.anchor_x = 0,
               !.unmodified_snapshot =
                   IF initially_modified THEN None ELSE Some(0)]
    IN  replaced(replace_slice(vs.document, 0, len(vs.document), text))

\* a load that leaves the redo stacks as they were
load_keeps_redo(vs, text, initially_modified) ==
    LET replaced(d1) ==
            [vs EXCEPT
               !.document = replace_slice(d1, 0, 0, <<>>),
               !.undo_snapshots = <<>>,
               !.undo_slice_edits = <<>>,
               !.cursor_pos = 0,
               !.selection_pos = 0,
               !.anchor_pos = 0,
               !.anchor_y = 0,
               !.anchor_x = 0,
               !.unmodified_snapshot =
                   IF initially_modified THEN None ELSE Some(0)]
    IN  replaced(replace_slice(vs.document, 0, len(vs.document), text))

\* a load that leaves the anchor of the viewport where it was
load_keeps_anchor(vs, text, initially_modified) ==
    LET replaced(d1) ==
            [vs EXCEPT
               !.document = replace_slice(d1, 0, 0, <<>>),
               !.undo_snapshots = <<>>,
               !.undo_slice_edits = <<>>,
               !.redo_snapshots = <<>>,
               !.redo_slice_edits = <<>>,
               !.cursor_pos = 0,
               !.selection_pos = 0,
               !.unmodified_snapshot =
                   IF initially_modified THEN None ELSE Some(0)]
    IN  replaced(replace_slice(vs.document, 0, len(vs.document), text))

load(vs, text, initially_modified) ==
    LET replaced(d1) ==
            IF ~replace_slice_asserts(d1, 0, 0) THEN Panic(vs)
            ELSE [vs EXCEPT
                    !.document = replace_slice(d1, 0, 0, <<>>),
                    !.undo_snapshots = <<>>,
                    !.undo_slice_edits = <<>>,
                    !.redo_snapshots = <<>>,
                    !.redo_slice_edits = <<>>,
                    !.cursor_pos = 0,
                    !.selection_pos = 0,
                    !.anchor_pos = 0,
                    !.anchor_y = 0,
                    !.anchor_x = 0,
                    !.unmodified_snapshot =
                        IF initially_modified THEN None ELSE Some(0)]
    IN  IF ~replace_slice_asserts(vs.document, 0, len(vs.document))
        THEN Panic(vs)
        ELSE replaced(replace_slice(vs.document, 0, len(vs.document), text))

\* a mark that always records depth 0
set_unmodified_snapshot_at_zero(vs) ==
    [vs EXCEPT !.unmodified_snapshot = Some(0)]

set_unmodified_snapshot(vs) ==
    [vs EXCEPT !.unmodified_snapshot = Some(Len(vs.undo_snapshots))]

content(vs) == slice_string(vs.document, 0, len(vs.document))

\* a select_all that leaves selection_pos where it was
select_all_to_end(vs) ==
    [vs EXCEPT !.cursor_pos = len(vs.document)]

select_all(vs) ==
    [vs EXCEPT !.selection_pos = 0, !.cursor_pos = len(vs.document)]

has_selection(vs) == vs.cursor_pos # vs.selection_pos

get_selection_pre(vs) ==
    slice_string_pre(vs.document, Min(vs.cursor_pos, vs.selection_pos),
                     Max(vs.cursor_pos, vs.selection_pos))

get_selection(vs) ==
    slice_string(vs.document, Min(vs.cursor_pos, vs.selection_pos),
                 Max(vs.cursor_pos, vs.selection_pos))

\* an edit_range that leaves out clear_selection
edit_range_keeps_selection(vs, a, b, text, new_cursor_pos) ==
    LET replaced(v1) ==
            IF v1.panicked THEN v1
            ELSE [v1 EXCEPT !.cursor_pos = new_cursor_pos]
    IN  self("ensure_cursor_on_screen", <<
            replaced(ViewState_replace_slice(vs, a, b, text))>>)

\* what every editing call does once it has its range [a, b) and its text:
\* replace_slice, the new cursor_pos, clear_selection, ensure_cursor_on_screen
edit_range(vs, a, b, text, new_cursor_pos) ==
    LET replaced(v1) ==
            IF v1.panicked THEN v1
            ELSE clear_selection([v1 EXCEPT !.cursor_pos = new_cursor_pos])
    IN  self("ensure_cursor_on_screen", <<
            replaced(ViewState_replace_slice(vs, a, b, text))>>)


\* both branches of paste end with the same three calls
paste(vs, s) ==
    LET selected == vs.selection_pos # vs.cursor_pos
        a == Min(vs.cursor_pos, vs.selection_pos)
        b == Max(vs.cursor_pos, vs.selection_pos)
    IN  edit_range(vs,
                   IF selected THEN a ELSE vs.cursor_pos,
                   IF selected THEN b ELSE vs.cursor_pos,
                   s,
                   IF selected THEN a + Len(s) ELSE vs.cursor_pos + Len(s))

cut_selection(vs) ==
    LET a == Min(vs.cursor_pos, vs.selection_pos)
        b == Max(vs.cursor_pos, vs.selection_pos)
    IN  IF ~slice_string_pre(vs.document, a, b) THEN Panic(vs)
        ELSE self("set_anchor_x", <<edit_range(vs, a, b, <<>>, a)>>)

\* an insert_char that leaves the cursor before the character it typed
insert_char_stays(vs, c) ==
    LET selected == vs.selection_pos # vs.cursor_pos
        a == Min(vs.cursor_pos, vs.selection_pos)
        b == Max(vs.cursor_pos, vs.selection_pos)
    IN  self("set_anchor_x", <<
            edit_range(vs,
                       IF selected THEN a ELSE vs.cursor_pos,
                       IF selected THEN b ELSE vs.cursor_pos,
                       <<c>>,
                       IF selected THEN a ELSE vs.cursor_pos)>>)

\* both branches of insert_char end with the same four calls
insert_char(vs, c) ==
    LET selected == vs.selection_pos # vs.cursor_pos
        a == Min(vs.cursor_pos, vs.selection_pos)
        b == Max(vs.cursor_pos, vs.selection_pos)
    IN  self("set_anchor_x", <<
            edit_range(vs,
                       IF selected THEN a ELSE vs.cursor_pos,
                       IF selected THEN b ELSE vs.cursor_pos,
                       <<c>>,
                       IF selected THEN a + 1 ELSE vs.cursor_pos + 1)>>)

\* the two branches of backspace that act end with the same four calls
backspace(vs) ==
    LET selected == vs.selection_pos # vs.cursor_pos
        a == Min(vs.cursor_pos, vs.selection_pos)
        b == Max(vs.cursor_pos, vs.selection_pos)
    IN  IF selected \/ vs.cursor_pos > 0
        THEN self("set_anchor_x", <<
                 edit_range(IF selected THEN vs
                            ELSE [vs EXCEPT !.cursor_pos = @ - 1],
                            IF selected THEN a ELSE vs.cursor_pos - 1,
                            IF selected THEN b ELSE vs.cursor_pos,
                            <<>>,
                            IF selected THEN a ELSE vs.cursor_pos - 1)>>)
        ELSE vs

\* a del that deletes the character before the cursor, as backspace does
del_before_cursor(vs) == backspace(vs)

\* the two branches of del that act end with the same four calls
del(vs) ==
    LET selected == vs.selection_pos # vs.cursor_pos
        a == Min(vs.cursor_pos, vs.selection_pos)
        b == Max(vs.cursor_pos, vs.selection_pos)
    IN  IF selected \/ vs.cursor_pos < len(vs.document)
        THEN self("set_anchor_x", <<
                 edit_range(vs,
                            IF selected THEN a ELSE vs.cursor_pos,
                            IF selected THEN b ELSE vs.cursor_pos + 1,
                            <<>>,
                            IF selected THEN a ELSE vs.cursor_pos)>>)
        ELSE vs

\* what every horizontal move does once it has its cursor_pos:
\* ensure_cursor_on_screen, then anchor_x
move_to(vs, pos) ==
    self("set_anchor_x",
         <<self("ensure_cursor_on_screen",
                <<[vs EXCEPT !.cursor_pos = pos]>>)>>)

left(vs) ==
    IF vs.cursor_pos > 0 THEN move_to(vs, vs.cursor_pos - 1) ELSE vs

right(vs) ==
    IF vs.cursor_pos < len(vs.document)
    THEN move_to(vs, vs.cursor_pos + 1)
    ELSE vs

RECURSIVE ctrl_left_loop_stops_after_whitespace(_, _)
ctrl_left_loop_stops_after_whitespace(d, p) ==
    IF p > 0
    THEN IF p - 1 >= len(d) THEN -1
         ELSE IF is_whitespace(get_char(d, p - 1)) THEN p
         ELSE ctrl_left_loop_stops_after_whitespace(d, p - 1)
    ELSE p

\* the while loop of ctrl_left: the position it stops at, or -1 when
\* get_char is handed a position that is not in [0, len) (it panics)
RECURSIVE ctrl_left_loop(_, _)
ctrl_left_loop(d, p) ==
    IF p > 0
    THEN IF p - 1 >= len(d) THEN -1
         ELSE IF is_whitespace(get_char(d, p - 1))
         THEN IF p >= len(d) THEN -1
              ELSE IF ~is_whitespace(get_char(d, p)) THEN p
              ELSE ctrl_left_loop(d, p - 1)
         ELSE ctrl_left_loop(d, p - 1)
    ELSE p

ctrl_left(vs) ==
    LET stopped(q) == IF q < 0 THEN Panic(vs) ELSE move_to(vs, q)
    IN  stopped(ctrl_left_loop(
                    vs.document,
                    IF vs.cursor_pos > 0 THEN vs.cursor_pos - 1
                    ELSE vs.cursor_pos))

\* the while loop of ctrl_right: the position it stops at
RECURSIVE ctrl_right_loop(_, _)
ctrl_right_loop(d, p) ==
    IF p < len(d)
    THEN IF p + 1 = len(d) THEN p + 1
         ELSE IF ~is_whitespace(get_char(d, p)) /\ is_whitespace(get_char(d, p + 1))
         THEN p + 1
         ELSE ctrl_right_loop(d, p + 1)
    ELSE p

ctrl_right(vs) == move_to(vs, ctrl_right_loop(vs.document, vs.cursor_pos))

\* the last element of bounds that is < offset, or 0
home_bound(bounds, offset) ==
    LET below == {k \in 1..Len(bounds) : bounds[k] < offset}
    IN  IF below = {} THEN 0
        ELSE bounds[CHOOSE k \in below : \A j \in below : j <= k]

home(vs) ==
    LET shaped(v1, line_no) ==
            IF v1.panicked THEN v1
            ELSE move_to(v1,
                         get_line(v1.document, line_no).start
                         + home_bound(
                               line_boundaries(layout_of(v1, line_no)),
                               v1.cursor_pos
                               - get_line(v1.document, line_no).start))
        on_line(line_no) == shaped(self("ensure_layout", <<vs, line_no>>), line_no)
    IN  IF ~find_line_asserts(vs.document, vs.cursor_pos) THEN Panic(vs)
        ELSE on_line(find_line(vs.document, vs.cursor_pos))

\* the first element of bounds that is > offset, or the last element
end_bound(bounds, offset) ==
    LET above == {k \in 1..Len(bounds) : bounds[k] > offset}
    IN  IF above = {} THEN bounds[Len(bounds)]
        ELSE bounds[CHOOSE k \in above : \A j \in above : k <= j]

end(vs) ==
    LET shaped(v1, line_no) ==
            IF v1.panicked THEN v1
            ELSE move_to(v1,
                         get_line(v1.document, line_no).start
                         + end_bound(
                               line_boundaries(layout_of(v1, line_no)),
                               v1.cursor_pos
                               - get_line(v1.document, line_no).start))
        on_line(line_no) == shaped(self("ensure_layout", <<vs, line_no>>), line_no)
    IN  IF ~find_line_asserts(vs.document, vs.cursor_pos) THEN Panic(vs)
        ELSE on_line(find_line(vs.document, vs.cursor_pos))

ctrl_home(vs) == move_to(vs, 0)

ctrl_end(vs) == move_to(vs, len(vs.document))

\* the first while loop of coord_to_pos: up to the line that starts at or
\* above y
RECURSIVE coord_to_pos_above(_, _, _, _)
coord_to_pos_above(vs, i, y0, y) ==
    IF ~vs.panicked /\ i > 0 /\ y0 > y
    THEN LET shaped(v1) ==
                 IF v1.panicked THEN [vs |-> v1, i |-> i, y0 |-> y0]
                 ELSE coord_to_pos_above(v1, i - 1,
                                         y0 - layout_of(v1, i - 1).height, y)
         IN  shaped(self("ensure_layout", <<vs, i - 1>>))
    ELSE [vs |-> vs, i |-> i, y0 |-> y0]

\* the loop of coord_to_pos: down to the line that holds y, or the last one
RECURSIVE coord_to_pos_loop(_, _, _, _, _)
coord_to_pos_loop(vs, i, y0, x, y) ==
    LET hit(v1, line, pos) ==
            IF pos <= line.end - line.start
            THEN [vs |-> v1, pos |-> line.start + pos]
            ELSE [vs |-> Panic(v1), pos |-> 0]
        shaped(v1, line) ==
            IF v1.panicked THEN [vs |-> v1, pos |-> 0]
            ELSE IF \/ y < y0 + line.data[1].height
                    \/ i + 1 = num_lines(v1.document)
            THEN hit(v1, line, coords_to_pos(line.data[1], x, y - y0))
            ELSE coord_to_pos_loop(v1, i + 1, y0 + line.data[1].height, x, y)
        laid(v1) == shaped(v1, get_line(v1.document, i))
    IN  IF vs.panicked THEN [vs |-> vs, pos |-> 0]
        ELSE laid(self("ensure_layout", <<vs, i>>))

coord_to_pos(vs, x, y) ==
    LET from(u) == coord_to_pos_loop(u.vs, u.i, u.y0, x, y)
        anchored(a) ==
            from(coord_to_pos_above(a.vs, a.anchor_line, a.anchor_line_y, y))
    IN  anchored(self("anchor_line_and_y", <<vs>>))

self(method, args) ==
    CASE method = "ensure_layout" -> ensure_layout(args[1], args[2])
      [] method = "vertical_offset" ->
            vertical_offset(args[1], args[2], args[3])
      [] method = "anchor_line_and_y" -> anchor_line_and_y(args[1])
      [] method = "lines_on_screen" ->
            lines_on_screen(args[1], args[2], args[3])
      [] method = "pos_to_coord" -> pos_to_coord(args[1], args[2])
      [] method = "anchor_to_top" -> anchor_to_top(args[1])
      [] method = "clip_scroll_position_to_document" ->
            clip_scroll_position_to_document(args[1])
      [] method = "ensure_cursor_on_screen" ->
            ensure_cursor_on_screen(args[1])
      [] method = "set_anchor_x" -> set_anchor_x(args[1])
      [] method = "coord_to_pos" -> coord_to_pos(args[1], args[2], args[3])

\* up, down, pg_up and pg_down: with y the cursor's own, the cursor goes to
\* the position at (anchor_x, y + half_lines * line_height / 2
\* + heights * height), then ensure_cursor_on_screen
vertical_move(vs, half_lines, heights) ==
    LET moved(c) ==
            IF c.vs.panicked THEN c.vs ELSE [c.vs EXCEPT !.cursor_pos = c.pos]
        shaped(v1, y, line_no) ==
            IF v1.panicked THEN v1
            ELSE moved(self("coord_to_pos", <<
                           v1, v1.anchor_x,
                           y + (half_lines * layout_of(v1, line_no).line_height)
                                   \div 2
                             + heights * v1.height>>))
        on_line(p, line_no) == shaped(self("ensure_layout", <<p.vs, line_no>>), p.y, line_no)
        placed(p) ==
            IF p.vs.panicked THEN p.vs
            ELSE on_line(p, find_line(p.vs.document, p.vs.cursor_pos))
    IN  self("ensure_cursor_on_screen", <<placed(self("pos_to_coord", <<vs, vs.cursor_pos>>))>>)

down_refreshes_anchor_x(vs) == self("set_anchor_x", <<vertical_move(vs, 3, 0)>>)

up(vs) == vertical_move(vs, -1, 0)

down(vs) == vertical_move(vs, 3, 0)

pg_up(vs) == vertical_move(vs, 3, -1)

pg_down(vs) == vertical_move(vs, -1, 1)

scroll(vs, delta) ==
    LET shaped(v1, line_no) ==
            IF v1.panicked THEN v1
            ELSE [v1 EXCEPT !.anchor_y =
                     @ + delta * layout_of(v1, line_no).line_height]
        on_line(line_no) == shaped(self("ensure_layout", <<vs, line_no>>), line_no)
    IN  self("clip_scroll_position_to_document", <<
            IF ~find_line_asserts(vs.document, vs.cursor_pos) THEN Panic(vs)
            ELSE on_line(find_line(vs.document, vs.cursor_pos))>>)

click_moves_selection(vs, x, y) ==
    LET hit(c) ==
            IF c.vs.panicked THEN c.vs
            ELSE [c.vs EXCEPT !.cursor_pos = c.pos, !.selection_pos = c.pos]
    IN  self("set_anchor_x",
             <<self("ensure_cursor_on_screen",
                    <<hit(self("coord_to_pos", <<vs, x, y>>))>>)>>)

click(vs, x, y) ==
    LET hit(c) ==
            IF c.vs.panicked THEN c.vs ELSE [c.vs EXCEPT !.cursor_pos = c.pos]
    IN  self("set_anchor_x",
             <<self("ensure_cursor_on_screen",
                    <<hit(self("coord_to_pos", <<vs, x, y>>))>>)>>)

\* the first while loop of double_click
RECURSIVE double_click_start(_, _)
double_click_start(d, start) ==
    IF start > 0 /\ is_alphanumeric(get_char(d, start - 1))
    THEN double_click_start(d, start - 1)
    ELSE start

double_click_end_one_character(d, end_pos) ==
    IF end_pos < len(d) /\ is_alphanumeric(get_char(d, end_pos))
    THEN end_pos + 1
    ELSE end_pos

\* the second while loop of double_click
RECURSIVE double_click_end(_, _)
double_click_end(d, end_pos) ==
    IF end_pos < len(d) /\ is_alphanumeric(get_char(d, end_pos))
    THEN double_click_end(d, end_pos + 1)
    ELSE end_pos

double_click(vs, x, y) ==
    LET hit(c) ==
            IF c.vs.panicked THEN c.vs
            ELSE [c.vs EXCEPT
                    !.selection_pos = double_click_start(c.vs.document, c.pos),
                    !.cursor_pos = double_click_end(c.vs.document, c.pos)]
    IN  self("ensure_cursor_on_screen", <<hit(self("coord_to_pos", <<vs, x, y>>))>>)

\* a resize that leaves the layouts in their slots
resize_keeps_layouts(vs, width, height) ==
    [vs EXCEPT !.width = width, !.height = height]

resize(vs, width, height) ==
    [vs EXCEPT !.width = width, !.height = height,
               !.document = clear_layouts(vs.document, 0)]

----------------------------------------------------------------------------
(* The engine driven through its public methods *)

\* the longest document the model lets an editing call or a load produce
MaxLen == 2
\* the longest text handed to load
MaxLoad == 1
\* the longest text handed to paste
MaxPaste == 1
\* the deepest undo_snapshots the model lets make_undo_snapshot build where
\* a specification keeps a history of the calls
MaxSnaps == 2
\* the same, where the window is resized, scrolled and clicked, and where
\* every call is made in any order and no history is kept
MaxSnapsView == 1
\* the most SliceEdits (undo and redo logs together) the model lets an
\* editing call add to
MaxEdits == 1
\* the same, where the history keeps the document of every snapshot
MaxEditsRun == 2
\* the longest text handed to load where the history keeps those documents
MaxLoadRun == 0
\* the longest run of undo() calls the history counts
MaxRun == 3

\* the client areas (width, height) the window is given where it is resized,
\* and the one it keeps where it is not; the text formats (the width of a
\* character; a line is twice as high), the points clicked and the wheel
\* steps
Sizes == {<<1, 2>>, <<3, 4>>}
Window == <<3, 4>>
TextFormats == {1}
ClickXs == {0, 2}
ClickYs == {0, 3}
ScrollDeltas == {-1, 1}

\* the characters typed, pasted and loaded
Typed == {"a", NL}
TypedTexts(n) == UNION {[1..k -> Typed] : k \in 0..n}

depth(vs) == Len(vs.undo_snapshots)

\* history: content() and cursor_pos at the moment each undo snapshot now
\* on the stack was pushed
UndoDocsAfter(op, vs, v2) ==
    CASE op = "load" -> <<>>
      [] op = "make_undo_snapshot" /\ depth(v2) > depth(vs)
            -> Append(hist.undo_docs,
                      [doc |-> content(vs), cur |-> vs.cursor_pos])
      [] op = "undo" /\ can_undo(vs) -> pop(hist.undo_docs)
      [] op = "redo" /\ can_redo(vs)
            -> Append(hist.undo_docs,
                      [doc |-> content(vs), cur |-> vs.cursor_pos])
      [] OTHER -> hist.undo_docs

RunOff == [phase |-> "off", n |-> 0, doc |-> <<>>, cur |-> 0]
RunFresh == [phase |-> "fresh", n |-> 0, doc |-> <<>>, cur |-> 0]

\* history: "fresh" while only snapshots, edits and cursor moves were made
\* since new or load, then a run of n undo() calls, then redo() calls
RunAfter(op, vs) ==
    CASE op = "load" -> RunFresh
      [] op = "undo" ->
            IF hist.run.phase = "fresh"
            THEN [phase |-> "undo", n |-> 1,
                  doc |-> content(vs), cur |-> vs.cursor_pos]
            ELSE IF hist.run.phase = "undo" /\ hist.run.n < MaxRun
            THEN [hist.run EXCEPT !.n = @ + 1]
            ELSE RunOff
      [] op = "redo" ->
            IF hist.run.phase \in {"undo", "redo"} /\ hist.run.n >= 1
            THEN [hist.run EXCEPT !.phase = "redo", !.n = @ - 1]
            ELSE RunOff
      [] OTHER -> IF hist.run.phase = "fresh" THEN RunFresh ELSE RunOff

MarkNone == [phase |-> "none", d |-> 0]

\* history: set_unmodified_snapshot() at depth d, then snapshots, edits and
\* moves ("grow"), then undo() calls only ("undo")
MarkAfter(op, v2) ==
    CASE op = "set_unmodified_snapshot" -> [phase |-> "grow", d |-> depth(v2)]
      [] op = "undo" ->
            IF hist.mark.phase = "none" THEN MarkNone
            ELSE [hist.mark EXCEPT !.phase = "undo"]
      [] op \in {"redo", "load"} -> MarkNone
      [] OTHER -> IF hist.mark.phase = "grow" THEN hist.mark ELSE MarkNone

EditOps == {"insert_char", "backspace", "del", "paste", "cut_selection"}

\* history: an undo() that popped ("undone"), then a make_undo_snapshot()
\* call ("snapped"), then an editing call that changed the text ("edited");
\* a redo() that uses up the redo stack puts the history back to "none"
AfterUndoAfter(op, vs, v2) ==
    CASE op = "load" -> "none"
      [] op = "undo" /\ can_undo(vs) -> "undone"
      [] op = "redo" -> IF can_redo(v2) THEN "undone" ELSE "none"
      [] op = "make_undo_snapshot" /\ hist.after_undo = "undone" -> "snapped"
      [] op \in EditOps /\ hist.after_undo = "snapped"
            /\ content(v2) # content(vs) -> "edited"
      [] OTHER -> hist.after_undo

\* the calls a history lets the host make next: a run of undo() and redo()
\* calls is not interleaved with other calls, and the host edits after an
\* undo() only once it has called make_undo_snapshot(), as main.rs does;
\* under "snap" every editing call comes right after a make_undo_snapshot()
Allowed(op, vs) ==
    /\ "run" \in hist.track => RunAfter(op, vs).phase # "off"
    /\ ("snap" \in hist.track /\ op \in EditOps) => hist.snapped
    /\ "after_undo" \in hist.track =>
          CASE hist.after_undo = "undone" -> op \notin EditOps
            [] hist.after_undo = "edited" -> op = "load"
            [] OTHER -> TRUE

\* hist.track names the histories a specification keeps; the others stay
\* as they start
\* ("loaded" keeps in saved the text the last load was handed, which is the
\* content() load leaves)
HistAfter(op, vs, v2) ==
    [track |-> hist.track,
     undo_docs |-> IF "undo_docs" \in hist.track
                   THEN UndoDocsAfter(op, vs, v2) ELSE hist.undo_docs,
     run |-> IF "run" \in hist.track THEN RunAfter(op, vs) ELSE hist.run,
     mark |-> IF "mark" \in hist.track THEN MarkAfter(op, v2) ELSE hist.mark,
     after_undo |-> IF "after_undo" \in hist.track
                    THEN AfterUndoAfter(op, vs, v2) ELSE hist.after_undo,
     snapped |-> IF "snap" \in hist.track
                 THEN op = "make_undo_snapshot" ELSE hist.snapped,
     saved |-> IF "loaded" \in hist.track /\ op = "load"
               THEN content(v2) ELSE hist.saved]

\* one public call: the ViewState it leaves, or the abort of the process
Step(op, v2) ==
    \E left_by_call \in {v2} :
        /\ ~panicked
        /\ Allowed(op, view_state)
        /\ IF left_by_call.panicked
           THEN /\ panicked' = TRUE
                /\ UNCHANGED <<view_state, hist>>
           ELSE /\ view_state' = left_by_call
                /\ hist' = HistAfter(op, view_state, left_by_call)
                /\ panicked' = FALSE
        /\ UNCHANGED <<buf, last, app_state, wnd_proc>>

HistInit(track) ==
    [track |-> track, undo_docs |-> <<>>, run |-> RunFresh, mark |-> MarkNone,
     after_undo |-> "none", snapped |-> FALSE, saved |-> <<>>]

\* AppState::new, but for view_state
AppState_new ==
    [filename |-> None, flash |-> None, left_button_pressed |-> FALSE,
     last_action |-> "Other"]

\* the RefCell WM_CREATE boxes the AppState in, not borrowed, and no call of
\* my_window_proc in progress
WndProcIdle == [borrowed |-> FALSE, frames |-> <<>>, destroyed |-> FALSE]

\* the state ViewState::new leaves, keeping the histories named in track
InitTracking(track) ==
    /\ view_state \in {ViewState_new(size[1], size[2], text_format) :
                          size \in IF "view" \in track THEN Sizes ELSE {Window},
                          text_format \in TextFormats}
    /\ panicked = FALSE
    /\ last = [op |-> "new"]
    /\ hist = HistInit(track)
    /\ buf = new_buffer
    /\ app_state = AppState_new
    /\ wnd_proc = WndProcIdle

Init == InitTracking({})

LoadWith(text, initially_modified) ==
    Step("load", load(view_state, text, initially_modified))

\* load_document hands load the text of a file, and whether its line ends
\* had to be converted; WM_COMMAND of the New item hands it "" and false
Load ==
    \E text \in TypedTexts(IF "undo_docs" \in hist.track
                           THEN MaxLoadRun ELSE MaxLoad),
       initially_modified \in IF hist.track \cap {"view", "loaded"} # {}
                              THEN {FALSE} ELSE BOOLEAN :
        LoadWith(text, initially_modified)

MakeUndoSnapshot ==
    /\ depth(view_state) < (IF hist.track \subseteq {"view"}
                             THEN MaxSnapsView ELSE MaxSnaps)
    /\ Step("make_undo_snapshot", make_undo_snapshot(view_state))

SetUnmodifiedSnapshot ==
    Step("set_unmodified_snapshot", set_unmodified_snapshot(view_state))

Undo == Step("undo", undo(view_state))

Redo == Step("redo", redo(view_state))

\* the length of the selection
SelLen(vs) == Max(vs.cursor_pos, vs.selection_pos) - Min(vs.cursor_pos, vs.selection_pos)

CanEdit ==
    Len(view_state.undo_slice_edits) + Len(view_state.redo_slice_edits)
        < (IF hist.track \cap {"undo_docs", "loaded"} # {}
           THEN MaxEditsRun ELSE MaxEdits)

InsertChar ==
    \E c \in Typed :
        /\ CanEdit
        /\ len(view_state.document) - SelLen(view_state) + 1 <= MaxLen
        /\ Step("insert_char", insert_char(view_state, c))

Backspace == CanEdit /\ Step("backspace", backspace(view_state))

Del == CanEdit /\ Step("del", del(view_state))

Paste ==
    \E s \in TypedTexts(MaxPaste) :
        /\ CanEdit
        /\ len(view_state.document) - SelLen(view_state) + Len(s) <= MaxLen
        /\ Step("paste", paste(view_state, s))

CutSelection == CanEdit /\ Step("cut_selection", cut_selection(view_state))

Left == Step("left", left(view_state))
Right == Step("right", right(view_state))
CtrlLeft == Step("ctrl_left", ctrl_left(view_state))
CtrlRight == Step("ctrl_right", ctrl_right(view_state))
CtrlHome == Step("ctrl_home", ctrl_home(view_state))
CtrlEnd == Step("ctrl_end", ctrl_end(view_state))
Home == Step("home", home(view_state))
End == Step("end", end(view_state))
Up == Step("up", up(view_state))
Down == Step("down", down(view_state))
PgUp == Step("pg_up", pg_up(view_state))
PgDown == Step("pg_down", pg_down(view_state))
SelectAll == Step("select_all", select_all(view_state))
ClearSelection == Step("clear_selection", clear_selection(view_state))

Scroll ==
    \E delta \in ScrollDeltas : Step("scroll", scroll(view_state, delta))

Click ==
    \E x \in ClickXs, y \in ClickYs : Step("click", click(view_state, x, y))

DoubleClick ==
    \E x \in ClickXs, y \in ClickYs :
        Step("double_click", double_click(view_state, x, y))

Resize ==
    \E size \in Sizes :
        Step("resize", resize(view_state, size[1], size[2]))

ChangeTextFormat ==
    \E text_format \in TextFormats :
        Step("change_text_format", change_text_format(view_state, text_format))

\* the calls that load, edit, keep the undo history and move the cursor
\* along the text, in a window that keeps its size
Next ==
    \/ Load
    \/ MakeUndoSnapshot
    \/ SetUnmodifiedSnapshot
    \/ Undo
    \/ Redo
    \/ InsertChar
    \/ Backspace
    \/ Del
    \/ Paste
    \/ CutSelection
    \/ Left
    \/ Right
    \/ CtrlLeft
    \/ CtrlRight
    \/ CtrlHome
    \/ CtrlEnd
    \/ SelectAll
    \/ ClearSelection

\* the calls that read or write the viewport and the cached layouts: those
\* but set_unmodified_snapshot, and the calls that move the cursor across
\* the lines, scroll, click and resize the window
NextView ==
    \/ Load
    \/ MakeUndoSnapshot
    \/ Undo
    \/ Redo
    \/ InsertChar
    \/ Backspace
    \/ Del
    \/ Paste
    \/ CutSelection
    \/ Left
    \/ Right
    \/ CtrlLeft
    \/ CtrlRight
    \/ CtrlHome
    \/ CtrlEnd
    \/ Home
    \/ End
    \/ Up
    \/ Down
    \/ PgUp
    \/ PgDown
    \/ SelectAll
    \/ ClearSelection
    \/ Scroll
    \/ Click
    \/ DoubleClick
    \/ Resize
    \/ ChangeTextFormat

Spec == Init /\ [][Next]_vars

\* the same engine under the histories the claims about runs of calls name
InitRun == InitTracking({"run", "undo_docs"})
SpecRun == InitRun /\ [][Next]_vars

\* load, snapshots, set_unmodified_snapshot, undo and redo, and the edits
\* and the cursor move that make the documents between them
NextMark ==
    \/ Load
    \/ MakeUndoSnapshot
    \/ SetUnmodifiedSnapshot
    \/ Undo
    \/ Redo
    \/ InsertChar
    \/ Backspace
    \/ Del
    \/ Right

InitMark == InitTracking({"run", "mark"})
SpecMark == InitMark /\ [][NextMark]_vars

\* load, snapshots, undo and redo, every editing call, and the cursor
\* moves and selections that place the edits
NextEditing ==
    \/ Load
    \/ MakeUndoSnapshot
    \/ Undo
    \/ Redo
    \/ InsertChar
    \/ Backspace
    \/ Del
    \/ Paste
    \/ CutSelection
    \/ Left
    \/ Right
    \/ SelectAll

InitAfterUndo == InitTracking({"after_undo"})
SpecAfterUndo == InitAfterUndo /\ [][NextEditing]_vars

\* the same engine where every editing call comes right after a
\* make_undo_snapshot() call, as in handle_keydown and WM_CHAR
InitSnap == InitTracking({"snap"})
SpecSnap == InitSnap /\ [][NextEditing]_vars

\* load, snapshots, edits, cursor moves, undos and redos in any order,
\* keeping the text of the last load
NextLoaded ==
    \/ Load
    \/ MakeUndoSnapshot
    \/ Undo
    \/ Redo
    \/ InsertChar
    \/ Backspace
    \/ Del
    \/ Right

InitLoaded == InitTracking({"loaded"})
SpecLoaded == InitLoaded /\ [][NextLoaded]_vars

InitView == InitTracking({"view"})
SpecView == InitView /\ [][NextView]_vars

----------------------------------------------------------------------------
(* The buffer driven directly, as test::stuff drives it *)

InitBuf ==
    /\ buf = new_buffer
    /\ panicked = FALSE
    /\ last = [op |-> "new"]
    /\ view_state = ViewState_new(3, 4, 1)
    /\ hist = HistInit({})
    /\ app_state = AppState_new
    /\ wnd_proc = WndProcIdle

BufReplaceSlice ==
    \E start \in 0..len(buf), end_pos \in 0..len(buf),
       new_slice \in Texts(BufMaxIns) :
        /\ ~panicked
        /\ start <= end_pos
        /\ len(buf) - (end_pos - start) + Len(new_slice) <= BufMaxLen
        /\ IF replace_slice_asserts(buf, start, end_pos)
           THEN /\ buf' = replace_slice(buf, start, end_pos, new_slice)
                /\ panicked' = FALSE
           ELSE /\ buf' = buf
                /\ panicked' = TRUE
        /\ last' = [op |-> "replace_slice", start |-> start, end |-> end_pos,
                    text |-> new_slice,
                    old |-> slice_string(buf, 0, len(buf))]
        /\ UNCHANGED <<view_state, hist, app_state, wnd_proc>>

NextBuf == BufReplaceSlice

SpecBuf == InitBuf /\ [][NextBuf]_vars

\* the whole text, read through the gap
whole(b) == slice_string(b, 0, len(b))

\* the steps of test::stuff and the values it asserts
TestStuff ==
    LET b1 == replace_slice(new_buffer, 0, 0, <<"h", "e", "l", "l", "o">>)
        b2 == replace_slice(b1, 2, 3, <<"-", "-">>)
        b3 == replace_slice(b2, 2, 3, <<"z", NL, NL, "z">>)
        b4 == replace_slice(b3, 0, 4, <<"q">>)
        b5 == replace_slice(b4, 0, 6, <<>>)
    IN  /\ whole(b1) = <<"h", "e", "l", "l", "o">>
        /\ line_ranges(b1) = <<(<<0, 5>>)>>
        /\ whole(b2) = <<"h", "e", "-", "-", "l", "o">>
        /\ line_ranges(b2) = <<(<<0, 6>>)>>
        /\ whole(b3) = <<"h", "e", "z", NL, NL, "z", "-", "l", "o">>
        /\ line_ranges(b3) = << <<0, 3>>, <<4, 4>>, <<5, 9>> >>
        /\ whole(b4) = <<"q", NL, "z", "-", "l", "o">>
        /\ line_ranges(b4) = << <<0, 1>>, <<2, 6>> >>
        /\ whole(b5) = <<>>
        /\ line_ranges(b5) = <<(<<0, 0>>)>>

\* C1: replace_slice(start, end, new_content) makes the whole text equal to
\* old[0..start] ++ new_content ++ old[end..], wherever the gaps were; with
\* start = 0 and end = len the text becomes new_content, with start = end
\* nothing is removed and with an empty new_content nothing is inserted.
C1_ReplaceSliceContent ==
    (last.op = "replace_slice" /\ ~panicked) =>
        /\ whole(buf) =
              SubSeq(last.old, 1, last.start) \o last.text
                  \o SubSeq(last.old, last.end + 1, Len(last.old))
        /\ (last.start = 0 /\ last.end = Len(last.old))
              => whole(buf) = last.text
        /\ len(buf) = Len(last.old) - (last.end - last.start) + Len(last.text)

\* a replacement strictly inside a text, made with the character gap left
\* of it beforehand, that both removes and inserts
C1_Witness ==
    /\ last.op = "replace_slice" /\ ~panicked
    /\ 0 < last.start /\ last.start < last.end /\ last.end < Len(last.old)
    /\ last.text # <<>>
    /\ buf.chars_right # <<>>
    /\ whole(buf) # last.old

\* the line records of b, in order
lines_of(b) == [i \in 1..num_lines(b) |-> get_line(b, i - 1)]

\* C2: the line records partition [0, len]: line 0 starts at 0, each line
\* starts one past the end of the line before it, the last line ends at len;
\* for every p in [0, len] find_line(p) passes its assertions and returns the
\* only index whose line holds p; find_line(len) is the last line.
C2_LinesPartition ==
    /\ ~panicked
    /\ get_line(buf, 0).start = 0
    /\ \A i \in 1..(num_lines(buf) - 1) :
          get_line(buf, i).start = get_line(buf, i - 1).end + 1
    /\ get_line(buf, num_lines(buf) - 1).end = len(buf)
    /\ \A p \in 0..len(buf) :
          /\ find_line_asserts(buf, p)
          /\ \A i \in 0..(num_lines(buf) - 1) :
                (get_line(buf, i).start <= p /\ p <= get_line(buf, i).end)
                    <=> i = find_line(buf, p)
    /\ find_line(buf, len(buf)) = num_lines(buf) - 1

\* three lines, the middle one empty, with records on both sides of the
\* line gap
C2_Witness ==
    /\ last.op = "replace_slice"
    /\ num_lines(buf) >= 3
    /\ buf.lines_left # <<>> /\ buf.lines_right # <<>>
    /\ \E i \in 1..(num_lines(buf) - 2) :
          get_line(buf, i).start = get_line(buf, i).end

\* the number of '\n' in a text
RECURSIVE count_newlines(_)
count_newlines(text) ==
    IF text = <<>> THEN 0
    ELSE (IF Head(text) = NL THEN 1 ELSE 0) + count_newlines(Tail(text))

\* C3: the line ranges are those of splitting the whole text on '\n':
\* num_lines = 1 + the number of '\n' (so at least 1), the character at the
\* end of every line but the last is '\n', no '\n' lies in [start, end) of a
\* line; the ranges test::stuff asserts are the ones computed.
C3_LinesSplitOnNewline ==
    /\ num_lines(buf) = 1 + count_newlines(whole(buf))
    /\ num_lines(buf) >= 1
    /\ \A i \in 0..(num_lines(buf) - 2) :
          get_char(buf, get_line(buf, i).end) = NL
    /\ \A i \in 0..(num_lines(buf) - 1) :
          \A p \in get_line(buf, i).start..(get_line(buf, i).end - 1) :
              get_char(buf, p) # NL
    /\ TestStuff

\* a replacement that removed one '\n' and put two in
C3_Witness ==
    /\ last.op = "replace_slice"
    /\ count_newlines(last.text) = 2
    /\ count_newlines(last.old) = 1
    /\ num_lines(buf) = 3
    /\ last.start < last.end

----------------------------------------------------------------------------
(* Undo and redo *)

\* C4: after make_undo_snapshot calls, edits and cursor moves only, n calls
\* of undo() followed by n calls of redo() leave content() and cursor_pos as
\* they were before the first undo(), and none of these calls aborts
C4_UndoRedoRestores ==
    /\ hist.run.phase \in {"undo", "redo"} => ~panicked
    /\ (hist.run.phase = "redo" /\ hist.run.n = 0) =>
          /\ content(view_state) = hist.run.doc
          /\ view_state.cursor_pos = hist.run.cur

\* two undo() calls that reverted two edits, then two redo() calls
C4_Witness ==
    /\ hist.run.phase = "redo"
    /\ hist.run.n = 0
    /\ depth(view_state) = 2
    /\ Len(view_state.undo_slice_edits) = 2
    /\ Len(hist.run.doc) = 2
    /\ top(view_state.undo_snapshots).slice_edit_count = 1
    /\ ~panicked

\* Scenario 5: one make_undo_snapshot, three insert_char calls, one undo
Scenario5 ==
    LET v0 == make_undo_snapshot(ViewState_new(3, 4, 1))
        v3 == insert_char(insert_char(insert_char(v0, "a"), "b"), "a")
        v4 == undo(v3)
    IN  /\ content(v3) = <<"a", "b", "a">>
        /\ Len(v3.undo_slice_edits) = 3
        /\ ~v4.panicked
        /\ content(v4) = <<>>
        /\ v4.cursor_pos = 0
        /\ ~has_selection(v4)
        /\ Len(v4.redo_slice_edits) = 3
        /\ Len(v4.redo_snapshots) = 1

\* C5: an undo() that pops a snapshot leaves content() and cursor_pos as
\* they were when that snapshot was pushed, whatever the number of edits
\* made since, and leaves no selection; Scenario 5 removes all three
\* characters
C5_UndoRevertsToSnapshot ==
    /\ Scenario5
    /\ (/\ ~panicked
        /\ Allowed("undo", view_state)
        /\ can_undo(view_state)
        /\ ~undo(view_state).panicked) =>
          /\ content(undo(view_state)) = top(hist.undo_docs).doc
          /\ undo(view_state).cursor_pos = top(hist.undo_docs).cur
          /\ ~has_selection(undo(view_state))

\* one undo() has reverted two edits made after the same snapshot
C5_Witness ==
    /\ hist.run.phase = "undo"
    /\ hist.run.n = 1
    /\ Len(view_state.redo_slice_edits) = 2
    /\ Len(view_state.redo_snapshots) = 1
    /\ depth(view_state) = 0
    /\ Len(hist.run.doc) = 2
    /\ ~panicked

----------------------------------------------------------------------------
(* The modified flag *)

\* C6 as stated: modified() is false right after load, whatever its
\* initially_modified argument, and right after set_unmodified_snapshot()
C6_UnmodifiedAfterAnyLoad ==
    [][(Load \/ SetUnmodifiedSnapshot) => ~modified(view_state')]_vars

\* C6: modified() is false right after load(text, false) and right after
\* set_unmodified_snapshot() in any state, and true right after
\* load(text, true)
C6_ModifiedAfterLoadOrMark ==
    ~panicked =>
        /\ \A text \in TypedTexts(MaxLoad) :
              /\ ~load(view_state, text, FALSE).panicked
              /\ ~modified(load(view_state, text, FALSE))
              /\ ~load(view_state, text, TRUE).panicked
              /\ modified(load(view_state, text, TRUE))
        /\ ~set_unmodified_snapshot(view_state).panicked
        /\ ~modified(set_unmodified_snapshot(view_state))

\* the state load(text, true) leaves for a text that is not empty
C6_Witness ==
    /\ view_state.unmodified_snapshot = None
    /\ content(view_state) # <<>>
    /\ view_state.undo_snapshots = <<>>
    /\ view_state.redo_snapshots = <<>>
    /\ view_state.undo_slice_edits = <<>>
    /\ view_state.redo_slice_edits = <<>>
    /\ modified(view_state)
    /\ ~panicked

\* the editing calls
EditCall == InsertChar \/ Backspace \/ Del \/ Paste \/ CutSelection

\* C7: an editing call that changes content() leaves modified() true
C7_EditSetsModified ==
    [][(EditCall /\ content(view_state') # content(view_state))
          => modified(view_state')]_vars

\* C8: with set_unmodified_snapshot() called at depth d, then snapshots and
\* edits, then undo() calls, modified() is false once the depth is d again
C8_UndoToMarkUnmodified ==
    (~panicked /\ hist.mark.phase = "undo"
        /\ depth(view_state) = hist.mark.d) => ~modified(view_state)

\* C9: after an undo(), a make_undo_snapshot() call and an editing call
\* that changed content(), both redo stacks are empty and can_redo() is false
C9_EditAfterUndoClearsRedo ==
    hist.after_undo = "edited" =>
        /\ view_state.redo_snapshots = <<>>
        /\ view_state.redo_slice_edits = <<>>
        /\ ~can_redo(view_state)

----------------------------------------------------------------------------
(* Cursor and selection *)

\* C10: in every state the public calls reach, cursor_pos and selection_pos
\* lie in [0, len], has_selection() is cursor_pos # selection_pos, and
\* get_selection() is the text of [min, max) of the two
C10_CursorAndSelectionInRange ==
    LET vs == view_state
        lo == Min(vs.cursor_pos, vs.selection_pos)
        hi == Max(vs.cursor_pos, vs.selection_pos)
    IN  /\ 0 <= vs.cursor_pos /\ vs.cursor_pos <= len(vs.document)
        /\ 0 <= vs.selection_pos /\ vs.selection_pos <= len(vs.document)
        /\ has_selection(vs) <=> vs.cursor_pos # vs.selection_pos
        /\ get_selection_pre(vs)
        /\ get_selection(vs) = SubSeq(content(vs), lo + 1, hi)

\* a selection of two characters, cursor first, in a document with a
\* snapshot and an edit made since
C10_Witness ==
    /\ view_state.cursor_pos = 0
    /\ view_state.selection_pos = 2
    /\ get_selection(view_state) = <<NL, "a">>
    /\ can_undo(view_state)
    /\ Len(view_state.undo_slice_edits) = 1
    /\ ~panicked


----------------------------------------------------------------------------
(* Typing *)

\* insert_char called for each character of text in turn
RECURSIVE insert_chars(_, _)
insert_chars(vs, text) ==
    IF text = <<>> \/ vs.panicked THEN vs
    ELSE insert_chars(insert_char(vs, Head(text)), Tail(text))

\* the engines ViewState::new makes
NewEngines ==
    {ViewState_new(size[1], size[2], text_format) :
        size \in Sizes \cup {Window}, text_format \in TextFormats}

Hello == <<"h", "e", "l", "l", "o">>

\* vs holds "hello" in the single line (0, 5), the cursor after it
HoldsHello(vs) ==
    /\ ~vs.panicked
    /\ content(vs) = Hello
    /\ vs.cursor_pos = 5
    /\ num_lines(vs.document) = 1
    /\ get_line(vs.document, 0).start = 0
    /\ get_line(vs.document, 0).end = 5

\* text with c put in at pos
with_char_at(text, pos, c) ==
    SubSeq(text, 1, pos) \o <<c>> \o SubSeq(text, pos + 1, Len(text))

\* the call insert_char(c), made with no selection where InsertChar makes
\* it, returns, puts c in at cursor_pos and moves cursor_pos one to the
\* right
InsertCharInserts(c) ==
    (/\ ~panicked
     /\ Allowed("insert_char", view_state)
     /\ CanEdit
     /\ len(view_state.document) + 1 <= MaxLen
     /\ ~has_selection(view_state))
    => LET v2 == insert_char(view_state, c)
       IN  /\ ~v2.panicked
           /\ content(v2) =
                  with_char_at(content(view_state), view_state.cursor_pos, c)
           /\ v2.cursor_pos = view_state.cursor_pos + 1

\* C11 as stated: from a new engine, insert_char for 'h','e','l','l','o' and
\* nothing else leaves "hello", cursor_pos 5 and the single line (0, 5); and
\* every insert_char(c) made with no selection puts c in at cursor_pos and
\* moves cursor_pos one to the right
C11_InsertCharFromNew ==
    /\ \A e \in NewEngines : HoldsHello(insert_chars(e, Hello))
    /\ \A c \in Typed : InsertCharInserts(c)

\* C11 as amended: the same once make_undo_snapshot() has pushed a snapshot:
\* from a new engine after make_undo_snapshot(), and for every insert_char(c)
\* made with no selection while can_undo()
C11_InsertCharAfterSnapshot ==
    /\ \A e \in NewEngines :
          HoldsHello(insert_chars(make_undo_snapshot(e), Hello))
    /\ \A c \in Typed : can_undo(view_state) => InsertCharInserts(c)

\* a newline typed at the end of the document "a", in the window one
\* character wide
C11_Witness ==
    /\ ~panicked
    /\ content(view_state) = <<"a", NL>>
    /\ view_state.cursor_pos = 2
    /\ ~has_selection(view_state)
    /\ view_state.width = 1
    /\ Len(view_state.undo_slice_edits) = 1


----------------------------------------------------------------------------
(* Select all, then cut *)

\* the String cut_selection returns
cut_selection_result(vs) ==
    slice_string(vs.document, Min(vs.cursor_pos, vs.selection_pos),
                 Max(vs.cursor_pos, vs.selection_pos))

\* the call select_all() leaves selection_pos 0 and cursor_pos len
SelectAllSelects ==
    ~panicked =>
        LET v2 == select_all(view_state)
        IN  /\ ~v2.panicked
            /\ v2.selection_pos = 0
            /\ v2.cursor_pos = len(v2.document)

\* view_state is as select_all() leaves a document that is not empty
AllSelected ==
    /\ len(view_state.document) > 0
    /\ view_state.selection_pos = 0
    /\ view_state.cursor_pos = len(view_state.document)

\* the call cut_selection() returns, with the whole text as its result, and
\* leaves content() "", cursor_pos 0 and no selection
CutCutsAll ==
    (~panicked /\ CanEdit) =>
        LET v2 == cut_selection(view_state)
        IN  /\ ~v2.panicked
            /\ cut_selection_result(view_state) = content(view_state)
            /\ content(v2) = <<>>
            /\ v2.cursor_pos = 0
            /\ ~has_selection(v2)

\* select_all() and then cut_selection(), called on vs, return, with the
\* whole text as the result, and leave content() "", cursor_pos 0 and no
\* selection
CutsAllOf(vs) ==
    LET cut(selected) ==
            /\ cut_selection_result(selected) = content(vs)
            /\ LET left_by_cut(v2) ==
                       /\ ~v2.panicked
                       /\ content(v2) = <<>>
                       /\ v2.cursor_pos = 0
                       /\ ~has_selection(v2)
               IN  left_by_cut(cut_selection(selected))
    IN  cut(select_all(vs))

\* C12 as stated: select_all() leaves selection_pos 0 and cursor_pos len, and
\* cut_selection() called next on a document that is not empty returns the
\* whole text and leaves content() "", cursor_pos 0 and no selection
C12_SelectAllThenCut ==
    /\ SelectAllSelects
    /\ AllSelected => CutCutsAll
    /\ (~panicked /\ len(view_state.document) > 0) => CutsAllOf(view_state)

\* C12 as amended: the same of cut_selection() where can_undo()
C12_SelectAllThenCutAfterSnapshot ==
    /\ SelectAllSelects
    /\ (AllSelected /\ can_undo(view_state)) => CutCutsAll
    /\ (~panicked /\ len(view_state.document) > 0 /\ can_undo(view_state))
          => CutsAllOf(view_state)

\* the document "a" was cut whole, its snapshot taken with the cursor at
\* its end
C12_Witness ==
    /\ ~panicked
    /\ content(view_state) = <<>>
    /\ view_state.selection_pos = 0
    /\ Len(view_state.undo_slice_edits) = 1
    /\ view_state.undo_slice_edits[1] = SliceEdit(<<"a">>, 0, 0)
    /\ view_state.undo_snapshots[1].cursor_pos = 1


----------------------------------------------------------------------------
(* Load *)

\* no line of vs holds a layout
NoLayouts(vs) ==
    \A line_no \in 0..num_lines(vs.document) - 1 :
        get_line(vs.document, line_no).data = NoData

\* the call load(text, initially_modified) returns and leaves text as the
\* content, the cursor, the selection and the anchor at 0, the four stacks
\* empty and no layout
LoadResets(text, initially_modified) ==
    ~panicked =>
        LET v2 == load(view_state, text, initially_modified)
        IN  /\ ~v2.panicked
            /\ content(v2) = text
            /\ v2.cursor_pos = 0
            /\ v2.selection_pos = 0
            /\ v2.anchor_pos = 0
            /\ v2.undo_snapshots = <<>>
            /\ v2.undo_slice_edits = <<>>
            /\ v2.redo_snapshots = <<>>
            /\ v2.redo_slice_edits = <<>>
            /\ ~can_undo(v2)
            /\ ~can_redo(v2)
            /\ NoLayouts(v2)

\* C13: from any state, load(text, flag) leaves content() = text, cursor_pos
\* = selection_pos = 0, anchor_pos = 0, the four undo and redo stacks empty
\* (can_undo() and can_redo() false) and no layout of the document before
C13_LoadResets ==
    \A text \in TypedTexts(MaxLoad), initially_modified \in BOOLEAN :
        LoadResets(text, initially_modified)

\* "a" loaded as modified, and nothing called since
C13_Witness ==
    /\ ~panicked
    /\ content(view_state) = <<"a">>
    /\ view_state.unmodified_snapshot = None
    /\ ~can_undo(view_state)
    /\ ~can_redo(view_state)
    /\ view_state.undo_slice_edits = <<>>
    /\ NoLayouts(view_state)


----------------------------------------------------------------------------
(* The buffer called with any arguments *)

\* one position past the end_pos of the text, one line past the last
Positions == 0..(len(buf) + 1)
LineNos == 0..num_lines(buf)

\* a replace_slice that asserts its range once the gap has moved
replace_slice_call_late(b, start, end_pos, new_slice) ==
    IF replace_slice_asserts(b, start, end_pos)
    THEN [buf |-> replace_slice(b, start, end_pos, new_slice), returned |-> TRUE]
    ELSE [buf |-> move_char_gap(b, Min(start, len(b))), returned |-> FALSE]

\* the buffer a call of replace_slice leaves, and whether the call returned
replace_slice_call(b, start, end_pos, new_slice) ==
    IF replace_slice_asserts(b, start, end_pos)
    THEN [buf |-> replace_slice(b, start, end_pos, new_slice), returned |-> TRUE]
    ELSE [buf |-> b, returned |-> FALSE]

ReplaceSliceCalled(start, end_pos, new_slice) ==
    /\ ~panicked
    /\ slice_string_pre(buf, start, end_pos) =>
          len(buf) - (end_pos - start) + Len(new_slice) <= BufMaxLen
    /\ buf' = replace_slice_call(buf, start, end_pos, new_slice).buf
    /\ panicked' = ~replace_slice_call(buf, start, end_pos, new_slice).returned
    /\ UNCHANGED <<last, view_state, hist, app_state, wnd_proc>>

SliceStringCalled(start, end_pos) ==
    /\ ~panicked
    /\ panicked' = ~slice_string_pre(buf, start, end_pos)
    /\ UNCHANGED <<buf, last, view_state, hist, app_state, wnd_proc>>

FindLineCalled(pos) ==
    /\ ~panicked
    /\ panicked' = ~find_line_asserts(buf, pos)
    /\ UNCHANGED <<buf, last, view_state, hist, app_state, wnd_proc>>

GetLineCalled(line_no) ==
    /\ ~panicked
    /\ panicked' = ~get_line_pre(buf, line_no)
    /\ UNCHANGED <<buf, last, view_state, hist, app_state, wnd_proc>>

\* the caller writes () through the reference it is handed
GetLineMutCalled(line_no) ==
    /\ ~panicked
    /\ panicked' = ~get_line_pre(buf, line_no)
    /\ buf' = IF get_line_pre(buf, line_no)
              THEN get_line_mut(buf, line_no, NoData) ELSE buf
    /\ UNCHANGED <<last, view_state, hist, app_state, wnd_proc>>

BufReplaceSliceAny ==
    \E start \in Positions, end_pos \in Positions,
       new_slice \in Texts(BufMaxIns) :
        ReplaceSliceCalled(start, end_pos, new_slice)

BufSliceString ==
    \E start \in Positions, end_pos \in Positions :
        SliceStringCalled(start, end_pos)

BufFindLine == \E pos \in Positions : FindLineCalled(pos)

BufGetLine == \E line_no \in LineNos : GetLineCalled(line_no)

BufGetLineMut == \E line_no \in LineNos : GetLineMutCalled(line_no)

NextBufCalls ==
    \/ BufReplaceSliceAny
    \/ BufSliceString
    \/ BufFindLine
    \/ BufGetLine
    \/ BufGetLineMut

SpecBufCalls == InitBuf /\ [][NextBufCalls]_vars

\* the call did not return, and left the buffer as it found it
AbortedUnchanged == panicked' /\ buf' = buf

\* C14: replace_slice and slice_string called with start > end or end > len,
\* find_line called with pos > len, and get_line and get_line_mut called with
\* line_no >= num_lines() do not return, and leave the buffer as it was
C14_FailFast ==
    [][/\ \A start \in Positions, end_pos \in Positions :
             (start > end_pos \/ end_pos > len(buf)) =>
                 /\ SliceStringCalled(start, end_pos) => AbortedUnchanged
                 /\ \A new_slice \in Texts(BufMaxIns) :
                        ReplaceSliceCalled(start, end_pos, new_slice)
                            => AbortedUnchanged
       /\ \A pos \in Positions :
             (pos > len(buf) /\ FindLineCalled(pos)) => AbortedUnchanged
       /\ \A line_no \in LineNos :
             line_no >= num_lines(buf) =>
                 /\ GetLineCalled(line_no) => AbortedUnchanged
                 /\ GetLineMutCalled(line_no) => AbortedUnchanged]_vars

\* a call aborted on a text of two lines with the gap in its middle
C14_Witness ==
    /\ panicked
    /\ buf.chars_left = <<"a", NL>>
    /\ buf.chars_right = <<"b">>
    /\ num_lines(buf) = 2


----------------------------------------------------------------------------
(* The viewport *)

\* C16: in every state a public call leaves (edits, undo, redo and loads
\* that make the document shorter than the anchor was among them),
\* anchor_pos <= len
C16_AnchorInDocument ==
    ~panicked =>
        /\ 0 <= view_state.anchor_pos
        /\ view_state.anchor_pos <= len(view_state.document)

\* in the window of one row, a snapshot taken with the cursor on the second
\* line of "\n" (the anchor is there too), then the newline deleted
C16_Witness ==
    /\ ~panicked
    /\ view_state.height = 2
    /\ content(view_state) = <<>>
    /\ view_state.undo_slice_edits = <<SliceEdit(<<NL>>, 0, 0)>>
    /\ Len(view_state.undo_snapshots) = 1
    /\ view_state.undo_snapshots[1].cursor_pos = 1


\* every layout in a slot of vs is the one TextLayout::new makes of the text
\* the line has now, in the text format and the width vs has now
LayoutsFresh(vs) ==
    \A line_no \in 0..(num_lines(vs.document) - 1) :
        LET fresh(line) ==
                line.data # NoData =>
                    line.data[1] =
                        TextLayout_new(
                            slice_string(vs.document, line.start, line.end),
                            vs.text_format, vs.width)
        IN  fresh(get_line(vs.document, line_no))

\* C17: in every state, each layout in a slot was shaped from the text its
\* line has now, with the width and the text format of now; resize and
\* change_text_format leave every slot empty
C17_LayoutsNeverStale ==
    ~panicked =>
        /\ LayoutsFresh(view_state)
        /\ \A size \in Sizes :
              /\ ~resize(view_state, size[1], size[2]).panicked
              /\ NoLayouts(resize(view_state, size[1], size[2]))
        /\ \A text_format \in TextFormats :
              /\ ~change_text_format(view_state, text_format).panicked
              /\ NoLayouts(change_text_format(view_state, text_format))

\* "a" typed on the second line of "\n" in the window one character wide,
\* and both lines shaped
C17_Witness ==
    /\ ~panicked
    /\ view_state.width = 1
    /\ content(view_state) = <<NL, "a">>
    /\ view_state.undo_slice_edits = <<SliceEdit(<<>>, 1, 2)>>
    /\ get_line(view_state.document, 0).data # NoData
    /\ get_line(view_state.document, 1).data # NoData
    /\ get_line(view_state.document, 1).data[1].text = <<"a">>


----------------------------------------------------------------------------
(* Undo and redo after snapshots *)

\* C19: where every editing call comes right after a make_undo_snapshot()
\* call, no undo() and no redo() aborts
C19_UndoRedoNeverAbort ==
    [][(Undo \/ Redo) => ~panicked']_vars


\* the top undo snapshot of vs records the undo edit log and the cursor_pos
\* vs has now
TopRecordsNow(vs) ==
    /\ vs.undo_snapshots # <<>>
    /\ top(vs.undo_snapshots) =
          UndoSnapshot(Len(vs.undo_slice_edits), vs.cursor_pos)

\* C20: make_undo_snapshot() called where the top snapshot records the
\* undo edit log length and cursor_pos of now changes no state, and called
\* twice in a row it leaves what one call leaves
C20_SnapshotDeduplicated ==
    ~panicked =>
        /\ TopRecordsNow(view_state) =>
              make_undo_snapshot(view_state) = view_state
        /\ TopRecordsNow(make_undo_snapshot(view_state))
        /\ make_undo_snapshot(make_undo_snapshot(view_state))
              = make_undo_snapshot(view_state)

\* the top snapshot records the state of now, and there is a snapshot to
\* redo, which the call leaves in place
C20_Witness ==
    /\ ~panicked
    /\ TopRecordsNow(view_state)
    /\ can_redo(view_state)
    /\ can_redo(make_undo_snapshot(view_state))

----------------------------------------------------------------------------
(* The host (src/src/main.rs): the AppState in its RefCell, and the calls   *)
(* the system makes of my_window_proc.  A handler runs up to the system    *)
(* call it makes with its guard alive (SetWindowTextW of update_title in   *)
(* the handlers that edit), up to the SendMessageW of a shortcut, or to    *)
(* its return; while a call of my_window_proc is inside such a system call *)
(* the system may call my_window_proc again.  The modal dialogs are taken  *)
(* with their answers, and with the WM_PAINT their message loops send the  *)
(* window, and the file handlers with the results of the file system, in   *)
(* one step.                                                               *)

\* the deepest nesting of calls of my_window_proc
MaxFrames == 2
\* the longest text of a file
MaxFile == 1
\* the most undo snapshots, and the most recorded edits, a session makes
MaxHostSnaps == 2
MaxHostEdits == 1
\* the longest text a session types
MaxHostLen == 1

CR == "\r"
FileChars == {"a", CR}
FileTexts == UNION {[1..k -> FileChars] : k \in 0..MaxFile}
\* the path the file dialogs hand back
ThePath == "p"
\* the characters of WM_CHAR: a letter, and the Enter key's
HostTyped == {"a", CR}
\* wParam of WM_CHAR
char_code(c) == CASE c = "a" -> 97 [] c = CR -> 13 [] c = NL -> 10

\* what the system hands a handler: the clipboard's text, the button of the
\* message box, the path of the file dialog (None: cancelled), whether
\* std::fs::write succeeded, what std::fs::read_to_string read (None: Err),
\* and whether the message loop of a modal dialog sends the window WM_PAINT
NoSys ==
    [clip |-> <<>>, answer |-> "IDCANCEL", chosen |-> None, written |-> FALSE,
     read |-> None, paints |-> FALSE]

\* the host as a handler sees it; saved is the history of the text last
\* loaded or written
Host ==
    [view_state |-> view_state, app_state |-> app_state,
     wnd_proc |-> wnd_proc, panicked |-> FALSE, saved |-> hist.saved]

frame(msg) == [msg |-> msg, pc |-> "start", guard |-> FALSE]

\* then(value), with value computed once
bind(value, then(_)) == CHOOSE result \in {then(v) : v \in {value}} : TRUE

\* a panic: panic_hook ends the process
abort(h) == [h EXCEPT !.panicked = TRUE]

\* a Token::borrow_mut that hands out a guard whatever the cell's flag says
borrow_mut_unchecked(h) ==
    bind(h, LAMBDA s :
        IF s.panicked THEN s
        ELSE [s EXCEPT !.wnd_proc.borrowed = TRUE,
                       !.wnd_proc.frames[Len(s.wnd_proc.frames)].guard = TRUE])

\* the panic of RefCell::borrow_mut
AlreadyBorrowed == "already borrowed"

\* Token::borrow_mut: RefCell::borrow_mut panics when the cell is borrowed
borrow_mut(h) ==
    bind(h, LAMBDA s :
        IF s.panicked THEN s
        ELSE IF s.wnd_proc.borrowed
        THEN abort([s EXCEPT !.wnd_proc.frames[Len(s.wnd_proc.frames)].pc =
                                 AlreadyBorrowed])
        ELSE [s EXCEPT !.wnd_proc.borrowed = TRUE,
                       !.wnd_proc.frames[Len(s.wnd_proc.frames)].guard = TRUE])

\* the guard goes out of scope, or drop(g)
drop(h) ==
    bind(h, LAMBDA s :
        IF s.panicked THEN s
        ELSE [s EXCEPT !.wnd_proc.borrowed = FALSE,
                       !.wnd_proc.frames[Len(s.wnd_proc.frames)].guard = FALSE])

\* app_state.borrow_mut().field: a guard that lives for one expression
borrowed_once(h) == drop(borrow_mut(h))

\* a call of a ViewState method through the guard
call(h, v2) ==
    bind(h, LAMBDA s :
        IF s.panicked THEN s
        ELSE bind(v2, LAMBDA v :
                 IF v.panicked THEN abort(s) ELSE [s EXCEPT !.view_state = v]))

last_action_is(h, action) ==
    bind(h, LAMBDA s :
        IF s.panicked THEN s ELSE [s EXCEPT !.app_state.last_action = action])

\* the handler is inside a system call that may call my_window_proc
in_call(h, function) ==
    bind(h, LAMBDA s :
        IF s.panicked THEN s
        ELSE [s EXCEPT !.wnd_proc.frames[Len(s.wnd_proc.frames)].pc = function])

\* the frames left when the call on top returns: a call below that is in
\* SendMessageW runs to its return with it
RECURSIVE unwound(_)
unwound(frames) ==
    IF frames # <<>> /\ top(frames).pc = "SendMessageW"
    THEN unwound(pop(frames))
    ELSE frames

\* my_window_proc returns
returned(h) ==
    bind(h, LAMBDA s :
        IF s.panicked THEN s
        ELSE [s EXCEPT !.wnd_proc.frames = unwound(pop(@))])

\* update_title with the guard alive: SetWindowTextW sends WM_SETTEXT
update_title(h) == in_call(h, "SetWindowTextW")

\* the for loop of render
RECURSIVE render_lines(_, _, _)
render_lines(vs, i, line_no2) ==
    IF vs.panicked \/ i >= line_no2 THEN vs
    ELSE render_lines(self("ensure_layout", <<vs, i>>), i + 1, line_no2)

\* what render leaves of the ViewState
render(vs) ==
    bind(self("anchor_line_and_y", <<vs>>), LAMBDA a :
        IF a.vs.panicked THEN a.vs
        ELSE bind(self("lines_on_screen",
                       <<a.vs, a.anchor_line, a.anchor_line_y>>), LAMBDA s :
                 IF s.vs.panicked THEN s.vs
                 ELSE bind(render_lines(s.vs, s.start_line, s.end_line),
                           LAMBDA v :
                               IF v.panicked THEN v
                               ELSE self("pos_to_coord",
                                         <<v, v.anchor_pos>>).vs)))

RECURSIVE my_window_proc(_, _, _)

\* a modal dialog: hwnd read through a guard of its own, then the dialog,
\* whose message loop may call my_window_proc for WM_PAINT
modal_dialog(h, function, sys) ==
    bind(in_call(borrowed_once(h), function), LAMBDA shown :
        IF shown.panicked \/ ~sys.paints THEN in_call(shown, "start")
        ELSE in_call(my_window_proc(shown, [type |-> "WM_PAINT"], NoSys),
                     "start"))

\* message_box reads hwnd through a guard of its own, then MessageBoxW
message_box(h, sys) == modal_dialog(h, "MessageBoxW", sys)

\* file_dialog: GetOpenFileNameW or GetSaveFileNameW
file_dialog(h, sys) == modal_dialog(h, "GetOpenFileNameW", sys)

\* load_document, handed what std::fs::read_to_string read
load_document(h, path, sys) ==
    LET read == sys.read
        text == SelectSeq(read[1], LAMBDA c : c # CR)
        initially_modified == \E k \in 1..Len(read[1]) : read[1][k] = CR
    IN  IF read = None THEN message_box(h, sys)
        ELSE bind(borrow_mut(h), LAMBDA g :
                 IF g.panicked THEN g
                 ELSE IF initially_modified /\ g.app_state.flash # None
                 THEN abort(g)
                 ELSE drop(call([g EXCEPT
                                   !.app_state.flash =
                                       IF initially_modified
                                       THEN Some("CRLF") ELSE @,
                                   !.app_state.filename = Some(path),
                                   !.saved = text],
                                load(g.view_state, text,
                                     initially_modified))))

\* a save_document without the drop(g) before its message box
save_document_keeps_guard(h, path, sys) ==
    bind(borrow_mut(h), LAMBDA g :
        IF g.panicked THEN [h |-> g, ok |-> FALSE]
        ELSE IF sys.written
        THEN [h |-> drop(call([g EXCEPT
                                 !.app_state.filename = Some(path),
                                 !.saved = content(g.view_state)],
                              set_unmodified_snapshot(g.view_state))),
              ok |-> TRUE]
        ELSE [h |-> message_box(g, sys), ok |-> FALSE])

\* the state save_document leaves, and what it returns
save_document(h, path, sys) ==
    bind(borrow_mut(h), LAMBDA g :
        IF g.panicked THEN [h |-> g, ok |-> FALSE]
        ELSE IF sys.written
        THEN [h |-> drop(call([g EXCEPT
                                 !.app_state.filename = Some(path),
                                 !.saved = content(g.view_state)],
                              set_unmodified_snapshot(g.view_state))),
              ok |-> TRUE]
        ELSE [h |-> message_box(drop(g), sys), ok |-> FALSE])

prompt_about_unsaved_changes(h, sys) ==
    bind(message_box(h, sys), LAMBDA asked :
        IF asked.panicked THEN [h |-> asked, ok |-> FALSE]
        ELSE CASE sys.answer = "IDYES" ->
                    bind(borrowed_once(asked), LAMBDA named :
                        IF named.panicked THEN [h |-> named, ok |-> FALSE]
                        ELSE IF named.app_state.filename # None
                        THEN save_document(named,
                                           named.app_state.filename[1],
                                           sys)
                        ELSE IF sys.chosen # None
                        THEN [h |-> save_document(file_dialog(named, sys),
                                                  sys.chosen[1],
                                                  sys).h,
                              ok |-> FALSE]
                        ELSE [h |-> file_dialog(named, sys), ok |-> FALSE])
               [] sys.answer = "IDNO" -> [h |-> asked, ok |-> TRUE]
               [] OTHER -> [h |-> asked, ok |-> FALSE])

\* modified() read through a guard, then the prompt when it is true
unsaved_changes_settled(h, sys) ==
    bind(borrowed_once(h), LAMBDA read_flag :
        IF read_flag.panicked \/ ~modified(read_flag.view_state)
        THEN [h |-> read_flag, ok |-> ~read_flag.panicked]
        ELSE prompt_about_unsaved_changes(read_flag, sys))

\* WM_CLOSE; DestroyWindow sends WM_NCDESTROY, which frees the AppState
wm_close(h, sys) ==
    bind(unsaved_changes_settled(h, sys), LAMBDA p :
        IF p.h.panicked \/ ~p.ok THEN p.h
        ELSE bind(borrowed_once(p.h), LAMBDA checked :
                 IF checked.panicked THEN checked
                 ELSE [checked EXCEPT !.wnd_proc.destroyed = TRUE]))

wm_paint(h) ==
    bind(borrow_mut(h), LAMBDA g :
        IF g.panicked THEN g
        ELSE bind(call(g, render(g.view_state)), LAMBDA painted :
                 IF painted.panicked THEN painted
                 ELSE IF g.app_state.flash = None THEN drop(painted)
                 ELSE message_box(
                         drop([painted EXCEPT !.app_state.flash = None]),
                         NoSys)))

cmd_new(h, sys) ==
    bind(unsaved_changes_settled(h, sys), LAMBDA p :
        IF p.h.panicked \/ ~p.ok THEN p.h
        ELSE bind(borrow_mut(p.h), LAMBDA g :
                 IF g.panicked THEN g
                 ELSE drop(call([g EXCEPT !.app_state.last_action = "Other",
                                          !.app_state.filename = None,
                                          !.saved = <<>>],
                                load(g.view_state, <<>>, FALSE)))))

cmd_open(h, sys) ==
    bind(unsaved_changes_settled(h, sys), LAMBDA p :
        IF p.h.panicked \/ ~p.ok THEN p.h
        ELSE bind(file_dialog(p.h, sys), LAMBDA picked :
                 IF picked.panicked \/ sys.chosen = None THEN picked
                 ELSE drop(last_action_is(
                             borrow_mut(load_document(picked, sys.chosen[1],
                                                      sys)),
                             "Other"))))

\* what Save and Save As do once they have the path: save_document,
\* update_title through a guard, last_action through a guard
save_to(h, path, sys) ==
    drop(last_action_is(
            borrow_mut(drop(borrow_mut(
                save_document(h, path, sys).h))),
            "Other"))

cmd_save(h, sys) ==
    bind(borrow_mut(h), LAMBDA g :
        IF g.panicked THEN g
        ELSE IF g.app_state.filename # None
        THEN IF modified(g.view_state)
             THEN save_to(drop(g), g.app_state.filename[1], sys)
             ELSE drop(g)
        ELSE bind(file_dialog(drop(g), sys), LAMBDA picked :
                 IF picked.panicked \/ sys.chosen = None THEN picked
                 ELSE save_to(picked, sys.chosen[1], sys)))

cmd_save_as(h, sys) ==
    bind(file_dialog(h, sys), LAMBDA picked :
        IF picked.panicked \/ sys.chosen = None THEN picked
        ELSE save_to(picked, sys.chosen[1], sys))

\* a handler of the Edit menu's items that leaves last_action as it is
cmd_edit_keeps_last_action(h, id, sys) ==
    bind(borrow_mut(h), LAMBDA g :
        IF g.panicked THEN g
        ELSE CASE id = "Undo" -> update_title(call(g, undo(g.view_state)))
               [] id = "Redo" -> update_title(call(g, redo(g.view_state)))
               [] id = "Cut" ->
                    bind(call(g, make_undo_snapshot(g.view_state)),
                         LAMBDA snapped :
                             update_title(
                                 call(snapped,
                                      cut_selection(snapped.view_state))))
               [] id = "Paste" ->
                    bind(call(g, make_undo_snapshot(g.view_state)),
                         LAMBDA snapped :
                             update_title(
                                 call(snapped,
                                      paste(snapped.view_state, sys.clip))))
               [] id = "Copy" ->
                    IF get_selection_pre(g.view_state)
                    THEN returned(drop(g)) ELSE abort(g)
               [] id = "SelectAll" ->
                    returned(drop(call(g, select_all(g.view_state)))))

\* the items of the Edit menu: the guard, last_action, the calls of the
\* ViewState, and update_title where the handler calls it
cmd_edit(h, id, sys) ==
    bind(last_action_is(borrow_mut(h), "Other"), LAMBDA g :
        IF g.panicked THEN g
        ELSE CASE id = "Undo" -> update_title(call(g, undo(g.view_state)))
               [] id = "Redo" -> update_title(call(g, redo(g.view_state)))
               [] id = "Cut" ->
                    bind(call(g, make_undo_snapshot(g.view_state)),
                         LAMBDA snapped :
                             update_title(
                                 call(snapped,
                                      cut_selection(snapped.view_state))))
               [] id = "Paste" ->
                    bind(call(g, make_undo_snapshot(g.view_state)),
                         LAMBDA snapped :
                             update_title(
                                 call(snapped,
                                      paste(snapped.view_state, sys.clip))))
               [] id = "Copy" ->
                    IF get_selection_pre(g.view_state)
                    THEN returned(drop(g)) ELSE abort(g)
               [] id = "SelectAll" ->
                    returned(drop(call(g, select_all(g.view_state)))))

wm_command(h, id, sys) ==
    CASE id = "New" -> returned(cmd_new(h, sys))
      [] id = "Open" -> returned(cmd_open(h, sys))
      [] id = "Save" -> returned(cmd_save(h, sys))
      [] id = "SaveAs" -> returned(cmd_save_as(h, sys))
      [] id \in {"Undo", "Redo", "Cut", "Copy", "Paste", "SelectAll"} ->
            cmd_edit(h, id, sys)
      [] OTHER -> abort(h)

wm_char(h, c) ==
    IF char_code(c) >= 32 \/ char_code(c) = 9
    THEN bind(borrow_mut(h), LAMBDA g :
            IF g.panicked THEN g
            ELSE bind(IF g.app_state.last_action # "InsertChar"
                      THEN last_action_is(
                              call(g, make_undo_snapshot(g.view_state)),
                              "InsertChar")
                      ELSE g,
                      LAMBDA snapped :
                          update_title(
                              call(snapped,
                                   insert_char(snapped.view_state, c)))))
    ELSE returned(h)

\* the item a key sends as WM_COMMAND, or None; a letter stands for the
\* key's scan code or key code
shortcut(key, ctrl_pressed, shift_pressed) ==
    CASE key = "VK_DELETE" /\ shift_pressed -> Some("Cut")
      [] key = "VK_INSERT" /\ ctrl_pressed /\ ~shift_pressed -> Some("Copy")
      [] key = "VK_INSERT" /\ shift_pressed /\ ~ctrl_pressed -> Some("Paste")
      [] ctrl_pressed /\ key = "X" -> Some("Cut")
      [] ctrl_pressed /\ key = "C" -> Some("Copy")
      [] ctrl_pressed /\ key = "V" -> Some("Paste")
      [] ctrl_pressed /\ key = "Z" -> Some("Undo")
      [] ctrl_pressed /\ key = "Y" -> Some("Redo")
      [] ctrl_pressed /\ key = "A" -> Some("SelectAll")
      [] ctrl_pressed /\ key = "N" -> Some("New")
      [] ctrl_pressed /\ key = "O" -> Some("Open")
      [] ctrl_pressed /\ key = "S" ->
            IF shift_pressed THEN Some("SaveAs") ELSE Some("Save")
      [] OTHER -> None

\* send_message reads hwnd through a guard of its own; SendMessageW calls
\* my_window_proc and returns when that call has returned
send_message(h, id, sys) ==
    bind(in_call(borrowed_once(h), "SendMessageW"), LAMBDA sending :
        IF sending.panicked THEN sending
        ELSE my_window_proc(sending, [type |-> "WM_COMMAND", id |-> id],
                            sys))

KeyCodes ==
    {"VK_BACK", "VK_DELETE", "VK_LEFT", "VK_RIGHT", "VK_HOME", "VK_END",
     "VK_UP", "VK_DOWN", "VK_PRIOR", "VK_NEXT", "VK_RETURN"}

\* the match on key_code past the shortcuts, for a key of KeyCodes: the
\* state it leaves and regular_movement_cmd
key_pressed(g, key, ctrl_pressed) ==
    LET vs == g.view_state
        moved(v2) ==
            [h |-> call(last_action_is(g, "Other"), v2), regular |-> TRUE]
        edited(h2) == [h |-> h2, regular |-> FALSE]
        once(action) ==
            IF g.app_state.last_action # action
            THEN last_action_is(call(g, make_undo_snapshot(vs)), action)
            ELSE g
    IN  CASE key = "VK_BACK" ->
                bind(once("Backspace"), LAMBDA snapped :
                    edited(call(snapped, backspace(snapped.view_state))))
          [] key = "VK_DELETE" ->
                bind(once("Del"), LAMBDA snapped :
                    edited(call(snapped, del(snapped.view_state))))
          [] key = "VK_LEFT" ->
                moved(IF ctrl_pressed THEN ctrl_left(vs) ELSE left(vs))
          [] key = "VK_RIGHT" ->
                moved(IF ctrl_pressed THEN ctrl_right(vs) ELSE right(vs))
          [] key = "VK_HOME" ->
                moved(IF ctrl_pressed THEN ctrl_home(vs) ELSE home(vs))
          [] key = "VK_END" ->
                moved(IF ctrl_pressed THEN ctrl_end(vs) ELSE end(vs))
          [] key = "VK_UP" ->
                IF ctrl_pressed
                THEN edited(call(last_action_is(g, "Other"), scroll(vs, 1)))
                ELSE moved(up(vs))
          [] key = "VK_DOWN" ->
                IF ctrl_pressed
                THEN edited(call(last_action_is(g, "Other"), scroll(vs, -1)))
                ELSE moved(down(vs))
          [] key = "VK_PRIOR" -> moved(pg_up(vs))
          [] key = "VK_NEXT" -> moved(pg_down(vs))
          [] key = "VK_RETURN" ->
                bind(call(last_action_is(g, "InsertChar"),
                          make_undo_snapshot(vs)),
                     LAMBDA snapped :
                         edited(call(snapped,
                                     insert_char(snapped.view_state, NL))))

handle_keydown(h, key, ctrl_pressed, shift_pressed, sys) ==
    bind(shortcut(key, ctrl_pressed, shift_pressed), LAMBDA item :
        IF item # None THEN send_message(h, item[1], sys)
        ELSE bind(borrow_mut(h), LAMBDA g :
                 IF g.panicked THEN g
                 ELSE IF key \notin KeyCodes THEN returned(drop(g))
                 ELSE bind(key_pressed(g, key, ctrl_pressed), LAMBDA k :
                          IF k.h.panicked THEN k.h
                          ELSE update_title(
                                  IF k.regular /\ ~shift_pressed
                                  THEN call(k.h,
                                            clear_selection(k.h.view_state))
                                  ELSE k.h))))

my_window_proc(h, msg, sys) ==
    bind([h EXCEPT !.wnd_proc.frames = Append(@, frame(msg.type))],
         LAMBDA entered :
             CASE msg.type = "WM_CLOSE" -> returned(wm_close(entered, sys))
               [] msg.type = "WM_PAINT" -> returned(wm_paint(entered))
               [] msg.type = "WM_COMMAND" ->
                     wm_command(entered, msg.id, sys)
               [] msg.type = "WM_CHAR" -> wm_char(entered, msg.c)
               [] msg.type = "WM_KEYDOWN" ->
                     handle_keydown(entered, msg.key, msg.ctrl, msg.shift,
                                    sys)
               [] OTHER -> in_call(entered, "DefWindowProcW"))

\* the system call the handler on top is in returns, and the handler runs
\* to its return
system_call_returns(h) ==
    IF top(h.wnd_proc.frames).pc = "SetWindowTextW"
    THEN returned(drop(h))
    ELSE returned(h)

----------------------------------------------------------------------------
(* The messages the system sends *)

\* the keys pressed, each with the state of Ctrl and of Shift
KeyPresses ==
    {<<"VK_BACK", FALSE, FALSE>>, <<"VK_DELETE", FALSE, FALSE>>,
     <<"VK_LEFT", FALSE, FALSE>>, <<"VK_F1", FALSE, FALSE>>,
     <<"Z", TRUE, FALSE>>, <<"Y", TRUE, FALSE>>, <<"S", TRUE, FALSE>>}

Items ==
    {"New", "Open", "Save", "SaveAs", "Undo", "Redo", "Cut", "Copy", "Paste",
     "SelectAll"}

\* the menu item a message stands for, or None
ItemOf(msg) ==
    CASE msg.type = "WM_COMMAND" -> Some(msg.id)
      [] msg.type = "WM_KEYDOWN" -> shortcut(msg.key, msg.ctrl, msg.shift)
      [] OTHER -> None

\* the messages whose handlers call make_undo_snapshot and an editing call
Edits(msg) ==
    \/ msg.type = "WM_CHAR"
    \/ msg.type = "WM_KEYDOWN" /\ ItemOf(msg) = None
          /\ msg.key \in {"VK_BACK", "VK_DELETE", "VK_RETURN"}
    \/ ItemOf(msg) \in {Some("Cut"), Some("Paste")}

\* the characters the handler of msg would insert
Inserted(msg, sys) ==
    CASE msg.type = "WM_CHAR" -> 1
      [] msg.type = "WM_KEYDOWN" /\ ItemOf(msg) = None
            /\ msg.key = "VK_RETURN" -> 1
      [] ItemOf(msg) = Some("Paste") -> Len(sys.clip)
      [] OTHER -> 0

\* the session stays within its bounds; WM_SETTEXT is what SetWindowTextW
\* sends
HostAllows(msg, sys) ==
    /\ Len(wnd_proc.frames)
         + (IF msg.type = "WM_KEYDOWN" /\ ItemOf(msg) # None THEN 2 ELSE 1)
         <= MaxFrames
    /\ msg.type = "WM_SETTEXT" =>
          /\ wnd_proc.frames # <<>>
          /\ top(wnd_proc.frames).pc = "SetWindowTextW"
    /\ (Edits(msg) /\ ~wnd_proc.borrowed) =>
          /\ Len(view_state.undo_slice_edits)
               + Len(view_state.redo_slice_edits) < MaxHostEdits
          /\ depth(view_state) < MaxHostSnaps
          /\ len(view_state.document) - SelLen(view_state)
               + Inserted(msg, sys) <= MaxHostLen

\* what the system may hand the handler of a menu item, or of WM_CLOSE
SysOf(item) ==
    LET prompted == item \in {"New", "Open", "Close"} /\ modified(view_state)
        prompt_saves == prompted /\ app_state.filename = None
        dialog == \/ item \in {"Open", "SaveAs"}
                  \/ item = "Save" /\ app_state.filename = None
                  \/ prompt_saves
        writes == prompted \/ item \in {"Save", "SaveAs"}
    IN  [clip : IF item = "Paste" THEN TypedTexts(MaxPaste) \ {<<>>}
                ELSE {<<>>},
         answer : IF prompted THEN {"IDYES", "IDNO", "IDCANCEL"}
                  ELSE {"IDCANCEL"},
         chosen : IF dialog THEN {None, Some(ThePath)} ELSE {None},
         written : IF writes THEN BOOLEAN ELSE {FALSE},
         read : IF item = "Open"
                THEN {None} \cup {Some(text) : text \in FileTexts}
                ELSE {None},
         paints : IF prompted \/ dialog \/ writes \/ item = "Open"
                  THEN BOOLEAN ELSE {FALSE}]

\* the state a step of the host leaves
Leaves(h) ==
    /\ view_state' = h.view_state
    /\ app_state' = h.app_state
    /\ wnd_proc' = h.wnd_proc
    /\ panicked' = h.panicked
    /\ hist' = [hist EXCEPT !.saved = h.saved]
    /\ UNCHANGED <<buf, last>>

\* the messages the system sends
Messages ==
    {[type |-> "WM_CHAR", c |-> c] : c \in HostTyped}
    \cup {[type |-> "WM_KEYDOWN", key |-> press[1], ctrl |-> press[2],
           shift |-> press[3]] : press \in KeyPresses}
    \cup {[type |-> "WM_COMMAND", id |-> id] : id \in Items}
    \cup {[type |-> "WM_CLOSE"], [type |-> "WM_PAINT"],
          [type |-> "WM_SETTEXT"]}

SysFor(msg) ==
    IF msg.type = "WM_CLOSE" THEN SysOf("Close")
    ELSE IF ItemOf(msg) # None THEN SysOf(ItemOf(msg)[1])
    ELSE {NoSys}

\* the message loop, or a system call a handler is in, calls
\* my_window_proc, which runs up to a system call that may call it again,
\* or to its return
MyWindowProc ==
    \E msg \in Messages :
        \E sys \in SysFor(msg) :
            /\ ~panicked
            /\ ~wnd_proc.destroyed
            /\ HostAllows(msg, sys)
            /\ \E left_by_call \in {my_window_proc(Host, msg, sys)} :
                   Leaves(left_by_call)

SystemCallReturns ==
    /\ ~panicked
    /\ wnd_proc.frames # <<>>
    /\ \E left_by_call \in {system_call_returns(Host)} :
           Leaves(left_by_call)

NextHost ==
    \/ MyWindowProc
    \/ SystemCallReturns

InitHost == InitTracking({"host"})
SpecHost == InitHost /\ [][NextHost]_vars

----------------------------------------------------------------------------
(* The guard of the application state *)

\* the calls of my_window_proc that hold a guard of the RefCell
Holders == {i \in 1..Len(wnd_proc.frames) : wnd_proc.frames[i].guard}

\* what the host is left as by each step the system may take next: a call
\* of my_window_proc, or the return of the system call the handler on top
\* is in
HostSteps ==
    (IF panicked \/ wnd_proc.destroyed THEN {}
     ELSE UNION {{my_window_proc(Host, msg, sys) :
                     sys \in {given \in SysFor(msg) : HostAllows(msg, given)}} :
                 msg \in Messages})
    \cup (IF panicked \/ wnd_proc.frames = <<>> THEN {}
          ELSE {system_call_returns(Host)})

\* h is left by a call of my_window_proc, for a message it does not hand to
\* DefWindowProcW, made while a call of it holds the guard
Reentered(h) ==
    /\ wnd_proc.borrowed
    /\ Len(h.wnd_proc.frames) > Len(wnd_proc.frames)
    /\ top(h.wnd_proc.frames).msg
         \in {"WM_CLOSE", "WM_PAINT", "WM_COMMAND", "WM_CHAR", "WM_KEYDOWN"}

\* C15: at most one call of my_window_proc holds a guard of the application
\* state, and the RefCell is borrowed exactly while one does; a call of
\* my_window_proc that touches the state while another call holds the guard
\* panics and leaves view_state and the other fields of the AppState as they
\* were; view_state changes only in a step that starts with no guard held
C15_ExclusiveAccess ==
    /\ Cardinality(Holders) <= 1
    /\ wnd_proc.borrowed <=> Holders # {}
    /\ \A h \in HostSteps :
          /\ Reentered(h) => /\ h.panicked
                             /\ h.view_state = view_state
                             /\ h.app_state = app_state
          /\ h.view_state # view_state => ~wnd_proc.borrowed

\* a WM_CHAR that came while the handler of a WM_CHAR was in SetWindowTextW,
\* its guard alive, has ended the process
C15_Witness ==
    /\ panicked
    /\ Len(wnd_proc.frames) = 2
    /\ wnd_proc.frames[1].guard
    /\ wnd_proc.frames[1].msg = "WM_CHAR"
    /\ wnd_proc.frames[1].pc = "SetWindowTextW"
    /\ wnd_proc.frames[2].msg = "WM_CHAR"
    /\ ~wnd_proc.frames[2].guard
    /\ content(view_state) = <<"a">>

----------------------------------------------------------------------------
(* The modified flag in the host *)

\* C18: in the host, whenever modified() is false, content() is the text
\* last loaded or written to the file
C18_UnmodifiedMeansSaved ==
    (~panicked /\ ~modified(view_state)) => content(view_state) = hist.saved

----------------------------------------------------------------------------
(* C21  make_undo_snapshot: a push empties both redo stacks                *)

\* make_undo_snapshot(), called on vs, pushes a snapshot
Pushes(vs) == depth(make_undo_snapshot(vs)) > depth(vs)

\* C21: whenever make_undo_snapshot() pushes a snapshot, redo_snapshots and
\* redo_slice_edits are both empty afterwards, so can_redo() is false
C21_PushClearsRedo ==
    (~panicked /\ Pushes(view_state)) =>
        /\ make_undo_snapshot(view_state).redo_snapshots = <<>>
        /\ make_undo_snapshot(view_state).redo_slice_edits = <<>>
        /\ ~can_redo(make_undo_snapshot(view_state))

\* an undo left a snapshot and a SliceEdit on the redo stacks, and
\* make_undo_snapshot() pushes
C21_Witness ==
    /\ ~panicked
    /\ can_redo(view_state)
    /\ view_state.redo_slice_edits # <<>>
    /\ Pushes(view_state)
    /\ depth(make_undo_snapshot(view_state)) = depth(view_state) + 1

----------------------------------------------------------------------------
(* C22  replace_slice: an edit that writes the text already there          *)

\* v2 has the line records of vs: their start, end and text, and every
\* layout a line of vs has cached
KeepsLineRecords(vs, v2) ==
    /\ content(v2) = content(vs)
    /\ line_ranges(v2.document) = line_ranges(vs.document)
    /\ \A i \in 0..(num_lines(vs.document) - 1) :
          get_line(vs.document, i).data # NoData =>
              get_line(v2.document, i).data = get_line(vs.document, i).data

\* the editing calls that hand replace_slice the text already in the range:
\* paste of the selected text ("" with no selection), cut_selection with no
\* selection, a character typed over a selection that is that character
IdenticalEdits(vs) ==
    {paste(vs, get_selection(vs))}
        \cup (IF has_selection(vs) THEN {} ELSE {cut_selection(vs)})
        \cup {insert_char(vs, c) :
                 c \in {c \in Typed : get_selection(vs) = <<c>>}}

\* C22: replace_slice(start, end, text) with text equal to the text in
\* [start, end) leaves the document, line records and gap included, as it
\* is, and the undo log as it is (with no snapshot its assertion aborts the
\* call, and nothing is written either); the editing calls that make such an
\* edit keep every line record's range, text and cached layout and append
\* no SliceEdit
C22_IdenticalEditUntouched ==
    ~panicked =>
        /\ \A start \in 0..len(view_state.document),
              end_pos \in 0..len(view_state.document) :
              start <= end_pos =>
                  ViewState_replace_slice(
                      view_state, start, end_pos,
                      slice_string(view_state.document, start, end_pos))
                  = IF can_undo(view_state) THEN view_state
                    ELSE Panic(view_state)
        /\ can_undo(view_state) =>
              \A v2 \in IdenticalEdits(view_state) :
                  /\ ~v2.panicked
                  /\ KeepsLineRecords(view_state, v2)
                  /\ v2.undo_slice_edits = view_state.undo_slice_edits
                  /\ v2.redo_slice_edits = view_state.redo_slice_edits

\* a document of two lines is selected, a layout is cached, and pasting the
\* selected text over it is such an edit; so is typing over a selection of
\* one character
C22_Witness ==
    /\ ~panicked
    /\ can_undo(view_state)
    /\ \/ /\ num_lines(view_state.document) = 2
          /\ get_line(view_state.document, 0).data # NoData
          /\ SelLen(view_state) = 2
          /\ paste(view_state, get_selection(view_state)).cursor_pos = 2
       \/ /\ SelLen(view_state) = 1
          /\ view_state.cursor_pos = 0
          /\ insert_char(view_state, "a") \in IdenticalEdits(view_state)
          /\ insert_char(view_state, "a").cursor_pos = 1

----------------------------------------------------------------------------
(* C23  the editing calls replace the selection and clear it               *)

\* the editing calls on vs, each with the text it inserts
EditingCalls(vs) ==
    {[vs |-> insert_char(vs, c), text |-> <<c>>] : c \in Typed}
        \cup {[vs |-> paste(vs, s), text |-> s] : s \in TypedTexts(MaxPaste)}
        \cup {[vs |-> v2, text |-> <<>>] :
                 v2 \in {backspace(vs), del(vs), cut_selection(vs)}}

\* old with [a, b) replaced by text
Spliced(old, a, b, text) ==
    SubSeq(old, 1, a) \o text \o SubSeq(old, b + 1, Len(old))

\* C23: insert_char, backspace, del, paste and cut_selection called with a
\* selection [a, b) leave content() = old[0..a] ++ inserted text ++ old[b..]
\* and cursor_pos = a + the length of the inserted text (a for the calls
\* that delete), and every editing call, with or without a selection,
\* leaves has_selection() false; a call with a selection returns exactly
\* when an undo snapshot exists (else ViewState::replace_slice aborts it)
C23_EditReplacesSelection ==
    ~panicked =>
        \A edit \in EditingCalls(view_state) :
            /\ has_selection(view_state) =>
                  /\ edit.vs.panicked <=> ~can_undo(view_state)
                  /\ ~edit.vs.panicked =>
                        /\ content(edit.vs)
                           = Spliced(content(view_state),
                                     Min(view_state.cursor_pos,
                                         view_state.selection_pos),
                                     Max(view_state.cursor_pos,
                                         view_state.selection_pos),
                                     edit.text)
                        /\ edit.vs.cursor_pos
                           = Min(view_state.cursor_pos,
                                 view_state.selection_pos) + Len(edit.text)
            /\ ~edit.vs.panicked => ~has_selection(edit.vs)

\* a selection [1, 2) in a document of two characters, with an
\* undo snapshot: every editing call returns, and typing over it moves the
\* cursor to 2
C23_Witness ==
    /\ ~panicked
    /\ can_undo(view_state)
    /\ Min(view_state.cursor_pos, view_state.selection_pos) = 1
    /\ Max(view_state.cursor_pos, view_state.selection_pos) = 2
    /\ len(view_state.document) = 2
    /\ \A edit \in EditingCalls(view_state) : ~edit.vs.panicked
    /\ insert_char(view_state, "a").cursor_pos = 2
    /\ cut_selection(view_state).cursor_pos = 1

----------------------------------------------------------------------------
(* C24  del and right followed by backspace                                *)

\* two calls both abort, or both return with the same content(),
\* cursor_pos, selection_pos and undo edit log
SameEdit(v1, v2) ==
    \/ v1.panicked /\ v2.panicked
    \/ /\ ~v1.panicked /\ ~v2.panicked
       /\ content(v1) = content(v2)
       /\ v1.cursor_pos = v2.cursor_pos
       /\ v1.selection_pos = v2.selection_pos
       /\ v1.undo_slice_edits = v2.undo_slice_edits

\* C24 as stated: with no selection, del() leaves the same content(),
\* cursor_pos, selection_pos and undo edit log as right() followed by
\* backspace(), for every cursor position in [0, len]
C24_DelIsRightThenBackspace ==
    (~panicked /\ ~has_selection(view_state)) =>
        SameEdit(del(view_state), backspace(right(view_state)))

\* C24 as amended: with no selection and the cursor before the end of the
\* document, del() leaves the same content(), cursor_pos, selection_pos and
\* undo edit log as right() followed by backspace(); with the cursor at the
\* end del() changes nothing
C24_DelIsRightThenBackspaceBeforeEnd ==
    (~panicked /\ ~has_selection(view_state)) =>
        IF view_state.cursor_pos < len(view_state.document)
        THEN SameEdit(del(view_state), backspace(right(view_state)))
        ELSE del(view_state) = view_state

\* the cursor is before the second character of a document with an undo
\* snapshot, and del() deletes that character
C24_Witness ==
    /\ ~panicked
    /\ ~has_selection(view_state)
    /\ can_undo(view_state)
    /\ view_state.cursor_pos = 1
    /\ len(view_state.document) = 2
    /\ ~del(view_state).panicked
    /\ len(del(view_state).document) = 1
    /\ del(view_state).cursor_pos = 1
    /\ Len(del(view_state).undo_slice_edits)
       = Len(view_state.undo_slice_edits) + 1

----------------------------------------------------------------------------
(* C25  anchor_x after an editing call                                     *)

\* anchor_x is the x coordinate of cursor_pos
AnchorXAtCursor(vs) == vs.anchor_x = pos_to_coord(vs, vs.cursor_pos).x

\* C25: after each editing call (insert_char, backspace, del, paste,
\* cut_selection) that returns, anchor_x equals the x coordinate of the
\* resulting cursor_pos
C25_AnchorXAfterEdit ==
    ~panicked =>
        \A edit \in EditingCalls(view_state) :
            ~edit.vs.panicked => AnchorXAtCursor(edit.vs)

----------------------------------------------------------------------------
(* C26  undo and redo with nothing to pop                                  *)

\* the call that left v2 of vs returned, and content(), cursor_pos,
\* selection_pos, the four stacks and modified() are as they were
NothingUndone(vs, v2) ==
    /\ ~v2.panicked
    /\ content(v2) = content(vs)
    /\ v2.cursor_pos = vs.cursor_pos
    /\ v2.selection_pos = vs.selection_pos
    /\ v2.undo_snapshots = vs.undo_snapshots
    /\ v2.undo_slice_edits = vs.undo_slice_edits
    /\ v2.redo_snapshots = vs.redo_snapshots
    /\ v2.redo_slice_edits = vs.redo_slice_edits
    /\ modified(v2) = modified(vs)

\* C26: undo() with undo_snapshots empty, and redo() with redo_snapshots
\* empty, change nothing of content(), cursor_pos, selection_pos, the four
\* stacks and modified()
C26_NothingToPopIsNoOp ==
    ~panicked =>
        /\ ~can_undo(view_state) => NothingUndone(view_state, undo(view_state))
        /\ ~can_redo(view_state) => NothingUndone(view_state, redo(view_state))

\* every snapshot was undone: undo_snapshots is empty while the redo stacks
\* are not, and undo() changes nothing
C26_Witness ==
    /\ ~panicked
    /\ ~can_undo(view_state)
    /\ can_redo(view_state)
    /\ view_state.redo_slice_edits # <<>>
    /\ NothingUndone(view_state, undo(view_state))

----------------------------------------------------------------------------
(* C27  the host makes a snapshot before it edits                          *)

\* the messages whose handlers make an editing call of the ViewState
EditMessages ==
    {msg \in Messages
            \cup {[type |-> "WM_KEYDOWN", key |-> key, ctrl |-> FALSE,
                   shift |-> FALSE] : key \in {"VK_RETURN"}}
            \cup {[type |-> "WM_KEYDOWN", key |-> key, ctrl |-> TRUE,
                   shift |-> FALSE] : key \in {"X", "V"}} :
        Edits(msg)}

----------------------------------------------------------------------------
(* C28  the undo bookkeeping is well-formed                                *)

\* a stack of snapshots and its edit log: slice_edit_count does not
\* decrease from bottom to top and is at most the length of the log, and
\* with no snapshot the log is empty
WellFormed(snapshots, slice_edits) ==
    /\ \A i \in 1..(Len(snapshots) - 1) :
          snapshots[i].slice_edit_count <= snapshots[i + 1].slice_edit_count
    /\ \A i \in 1..Len(snapshots) :
          snapshots[i].slice_edit_count <= Len(slice_edits)
    /\ snapshots = <<>> => slice_edits = <<>>

\* C28: in every reachable state undo_snapshots with undo_slice_edits, and
\* redo_snapshots with redo_slice_edits, are well-formed
C28_UndoBookkeepingWellFormed ==
    ~panicked =>
        /\ WellFormed(view_state.undo_snapshots, view_state.undo_slice_edits)
        /\ WellFormed(view_state.redo_snapshots, view_state.redo_slice_edits)

\* two snapshots were undone: redo_snapshots holds two, with an edit of the
\* redo log recorded between them
C28_Witness ==
    /\ ~panicked
    /\ Len(view_state.redo_snapshots) = 2
    /\ view_state.redo_snapshots[1].slice_edit_count = 0
    /\ view_state.redo_snapshots[2].slice_edit_count = 1
    /\ Len(view_state.redo_slice_edits) = 1
    /\ ~can_undo(view_state)

----------------------------------------------------------------------------
(* C29  undoing everything gives back the loaded text                      *)

\* undo() called until can_undo() is false: the ViewState that leaves, and
\* the number of calls made
RECURSIVE undo_until_empty(_, _)
undo_until_empty(vs, calls) ==
    IF vs.panicked \/ ~can_undo(vs) THEN [vs |-> vs, calls |-> calls]
    ELSE undo_until_empty(undo(vs), calls + 1)

\* C29: after load(T, flag) and any sequence of snapshots, edits, cursor
\* moves, undos and redos, calling undo() until can_undo() is false takes
\* as many calls as undo_snapshots is deep, none of them aborts, and
\* content() is T afterwards
C29_UndoAllRestoresLoaded ==
    ~panicked =>
        /\ ~undo_until_empty(view_state, 0).vs.panicked
        /\ undo_until_empty(view_state, 0).calls = depth(view_state)
        /\ content(undo_until_empty(view_state, 0).vs) = hist.saved

\* a text was loaded, two snapshots are on the stack and the text is another
C29_Witness ==
    /\ ~panicked
    /\ hist.saved # <<>>
    /\ depth(view_state) = 2
    /\ content(view_state) # hist.saved
    /\ Len(view_state.undo_slice_edits) = 1
    /\ undo_until_empty(view_state, 0).calls = 2

----
(* C30  LineGapBuffer::replace_slice and the line records around the edit *)

\* the text of line record number line_no of b
line_text(b, line_no) ==
    slice_string(b, get_line(b, line_no).start, get_line(b, line_no).end)

\* the line records of b left alone by replace_slice(start, end_pos, text),
\* which leaves b2: those before the line of start are as they were, those
\* after the line of end_pos moved by the change of length and kept their
\* payload, and every record in between carries the default payload
KeepsOtherLines(b, start, end_pos, text, b2) ==
    LET line_left == find_line(b, start)
        line_right == find_line(b, end_pos)
        delta == Len(text) - (end_pos - start)
        more == num_lines(b2) - num_lines(b)
    IN  /\ line_right + more >= line_left
        /\ \A i \in 0..(line_left - 1) :
              /\ get_line(b2, i) = get_line(b, i)
              /\ line_text(b2, i) = line_text(b, i)
        /\ \A i \in (line_right + 1)..(num_lines(b) - 1) :
              /\ get_line(b2, i + more) =
                    Line(get_line(b, i).start + delta,
                         get_line(b, i).end + delta,
                         get_line(b, i).data)
              /\ line_text(b2, i + more) = line_text(b, i)
        /\ \A i \in line_left..(line_right + more) :
              get_line(b2, i).data = NoData

\* C30: replace_slice(start, end, new_content) discards and re-creates, with
\* the default payload, only the line records from the line containing start
\* through the line containing end; every line record before or after that
\* range keeps its payload and its text, and the start and end of the later
\* ones move by the change of length
C30_ReplaceSliceKeepsOtherLines ==
    \A start \in 0..len(view_state.document) :
        \A end_pos \in start..len(view_state.document) :
            \A text \in TypedTexts(MaxPaste) :
                KeepsOtherLines(view_state.document, start, end_pos, text,
                    replace_slice(view_state.document, start, end_pos, text))

\* a document of three lines whose first and last line have a cached layout,
\* and an insertion in the middle line that moves the last line by one
C30_Witness ==
    /\ num_lines(view_state.document) = 3
    /\ get_line(view_state.document, 0).data # NoData
    /\ get_line(view_state.document, 2).data # NoData
    /\ find_line(view_state.document, 1) = 1
    /\ LET b2 == replace_slice(view_state.document, 1, 1, <<"a">>)
       IN  /\ get_line(b2, 0).data = get_line(view_state.document, 0).data
           /\ get_line(b2, 1).data = NoData
           /\ get_line(b2, 2) =
                 Line(get_line(view_state.document, 2).start + 1,
                      get_line(view_state.document, 2).end + 1,
                      get_line(view_state.document, 2).data)

----------------------------------------------------------------------------
(* C31  ctrl_left and ctrl_right stop at the word boundaries               *)

\* q is where a word starts in d: the start of the text, or a character
\* that is not whitespace right after one that is
word_start(d, q) ==
    q = 0 \/ (is_whitespace(get_char(d, q - 1)) /\ ~is_whitespace(get_char(d, q)))

\* q is where a word ends in d: the end of the text, or a whitespace
\* character right after one that is not
word_end(d, q) ==
    q = len(d) \/ (~is_whitespace(get_char(d, q - 1)) /\ is_whitespace(get_char(d, q)))

\* C31: ctrl_left from cursor p > 0 moves to the largest q < p that is 0 or
\* has whitespace before it and none at it; ctrl_right from p < len moves to
\* the smallest q > p that is len or has whitespace at it and none before
\* it; at the bounds of the document they leave the cursor where it is, and
\* neither aborts on a character outside [0, len)
C31_CtrlMovesByWord ==
    ~panicked =>
        LET d == view_state.document
            p == view_state.cursor_pos
            starts == {q \in 0..(p - 1) : word_start(d, q)}
            ends == {q \in (p + 1)..len(d) : word_end(d, q)}
        IN  /\ ~ctrl_left(view_state).panicked
            /\ ~ctrl_right(view_state).panicked
            /\ ctrl_left(view_state).cursor_pos =
                  IF p > 0
                  THEN CHOOSE q \in starts : \A r \in starts : r <= q
                  ELSE p
            /\ ctrl_right(view_state).cursor_pos =
                  IF p < len(d)
                  THEN CHOOSE q \in ends : \A r \in ends : q <= r
                  ELSE p

\* the cursor at the end of a word that follows a newline: ctrl_left stops at
\* the start of the word, not at 0; and the cursor at the start of "a\n":
\* ctrl_right stops before the newline, not at len
C31_Witness ==
    /\ ~panicked
    /\ \/ /\ content(view_state) = <<NL, "a">>
          /\ view_state.cursor_pos = 2
          /\ ctrl_left(view_state).cursor_pos = 1
       \/ /\ content(view_state) = <<"a", NL>>
          /\ view_state.cursor_pos = 0
          /\ ctrl_right(view_state).cursor_pos = 1

----------------------------------------------------------------------------
(* C32  home and end against the sub-lines of the cursor's line            *)

\* the boundaries of the sub-lines of line line_no of vs, as positions of
\* the document, once the line is shaped
sub_line_bounds(vs, line_no) ==
    LET shaped(v1) ==
            [k \in 1..Len(line_boundaries(layout_of(v1, line_no))) |->
                get_line(v1.document, line_no).start
                + line_boundaries(layout_of(v1, line_no))[k]]
    IN  shaped(self("ensure_layout", <<vs, line_no>>))

\* where the sub-lines of the line start and where they end
sub_line_starts(vs, line_no) ==
    {sub_line_bounds(vs, line_no)[k] :
        k \in 1..(Len(sub_line_bounds(vs, line_no)) - 1)}
sub_line_ends(vs, line_no) ==
    {sub_line_bounds(vs, line_no)[k] :
        k \in 2..Len(sub_line_bounds(vs, line_no))}

\* C32: home() moves the cursor to the nearest sub-line start at or before
\* it within its line and end() to the nearest sub-line end at or after it;
\* the cursor stays on its logical line, and a second home() (or end())
\* leaves the cursor where the first one put it
C32_HomeEndNearestSubLine ==
    (~panicked /\ ~home(view_state).panicked /\ ~end(view_state).panicked) =>
        LET p == view_state.cursor_pos
            line_no == find_line(view_state.document, p)
            line == get_line(view_state.document, line_no)
            starts == {q \in sub_line_starts(view_state, line_no) : q <= p}
            ends == {q \in sub_line_ends(view_state, line_no) : q >= p}
            at_home == home(view_state)
            at_end == end(view_state)
        IN  /\ at_home.cursor_pos \in line.start..line.end
            /\ at_end.cursor_pos \in line.start..line.end
            /\ at_home.cursor_pos = CHOOSE q \in starts : \A r \in starts : r <= q
            /\ at_end.cursor_pos = CHOOSE q \in ends : \A r \in ends : q <= r
            /\ ~home(at_home).panicked
                  => home(at_home).cursor_pos = at_home.cursor_pos
            /\ ~end(at_end).panicked
                  => end(at_end).cursor_pos = at_end.cursor_pos

----------------------------------------------------------------------------
(* C33  double_click selects the word around the position hit              *)

\* every character of [s, e) of d is alphanumeric
all_alphanumeric(d, s, e) ==
    \A i \in s..(e - 1) : is_alphanumeric(get_char(d, i))

\* C33: double_click(x, y), with pos the position coord_to_pos hits, sets
\* selection_pos to the smallest s <= pos and cursor_pos to the largest
\* e >= pos with every character of [s, e) alphanumeric, and does not abort
\* on a character outside [0, len)
C33_DoubleClickSelectsWord ==
    ~panicked =>
        \A x \in ClickXs, y \in ClickYs :
            LET hit == self("coord_to_pos", <<view_state, x, y>>)
                d == view_state.document
                ss == {s \in 0..hit.pos : all_alphanumeric(d, s, hit.pos)}
                es == {e \in hit.pos..len(d) : all_alphanumeric(d, hit.pos, e)}
                clicked == double_click(view_state, x, y)
            IN  ~hit.vs.panicked =>
                    /\ ~clicked.panicked
                    /\ clicked.selection_pos =
                          CHOOSE s \in ss : \A r \in ss : s <= r
                    /\ clicked.cursor_pos =
                          CHOOSE e \in es : \A r \in es : r <= e

\* a double click on the first character of "aa" selects both characters
C33_Witness ==
    /\ ~panicked
    /\ content(view_state) = <<"a", "a">>
    /\ \E x \in ClickXs, y \in ClickYs :
          /\ ~self("coord_to_pos", <<view_state, x, y>>).vs.panicked
          /\ self("coord_to_pos", <<view_state, x, y>>).pos = 0
          /\ double_click(view_state, x, y).selection_pos = 0
          /\ double_click(view_state, x, y).cursor_pos = 2

----------------------------------------------------------------------------
(* C34  the vertical moves keep anchor_x                                   *)

\* what up, down, pg_up and pg_down leave of vs
vertical_moves(vs) == {up(vs), down(vs), pg_up(vs), pg_down(vs)}

\* C34: up, down, pg_up and pg_down never modify anchor_x, so a run of
\* vertical moves keeps using the anchor_x that was there before the first
C34_VerticalMovesKeepAnchorX ==
    ~panicked =>
        \A moved \in vertical_moves(view_state) :
            /\ ~moved.panicked => moved.anchor_x = view_state.anchor_x
            /\ \A again \in vertical_moves(moved) :
                  ~again.panicked => again.anchor_x = view_state.anchor_x

\* down() from the end of the first line of "a\n" puts the cursor on the
\* empty second line, at x = 0, and anchor_x is still the 1 of the first line
C34_Witness ==
    /\ ~panicked
    /\ view_state.anchor_x > 0
    /\ ~down(view_state).panicked
    /\ down(view_state).cursor_pos # view_state.cursor_pos
    /\ down(view_state).anchor_x = view_state.anchor_x
    /\ ~AnchorXAtCursor(down(view_state))

----------------------------------------------------------------------------
(* C35  navigating, selecting and scrolling leave the text and its history *)

\* what the calls that move the cursor along or across the lines and the
\* calls that select leave of vs
NavigationCalls(vs) ==
    {left(vs), right(vs), ctrl_left(vs), ctrl_right(vs), home(vs), end(vs),
     ctrl_home(vs), ctrl_end(vs), up(vs), down(vs), pg_up(vs), pg_down(vs),
     select_all(vs), clear_selection(vs)}
        \cup {double_click(vs, x, y) : x \in ClickXs, y \in ClickYs}

ClickCalls(vs) == {click(vs, x, y) : x \in ClickXs, y \in ClickYs}

ScrollCalls(vs) ==
    {scroll(vs, delta) : delta \in ScrollDeltas}
        \cup {resize(vs, size[1], size[2]) : size \in Sizes}

\* v2 has the text, the undo and redo stacks and the modified() of vs
KeepsTextAndHistory(vs, v2) ==
    /\ content(v2) = content(vs)
    /\ v2.undo_snapshots = vs.undo_snapshots
    /\ v2.undo_slice_edits = vs.undo_slice_edits
    /\ v2.redo_snapshots = vs.redo_snapshots
    /\ v2.redo_slice_edits = vs.redo_slice_edits
    /\ modified(v2) = modified(vs)

\* C35: left, right, ctrl_left, ctrl_right, home, end, ctrl_home, ctrl_end,
\* up, down, pg_up, pg_down, click, double_click, select_all,
\* clear_selection, scroll and resize never change content(), the four undo
\* and redo stacks or modified(); click leaves selection_pos as it is, and
\* scroll and resize leave cursor_pos and selection_pos as they are
C35_NavigationKeepsTextAndHistory ==
    ~panicked =>
        /\ \A v2 \in NavigationCalls(view_state) \cup ClickCalls(view_state)
                        \cup ScrollCalls(view_state) :
              ~v2.panicked => KeepsTextAndHistory(view_state, v2)
        /\ \A v2 \in ClickCalls(view_state) :
              ~v2.panicked => v2.selection_pos = view_state.selection_pos
        /\ \A v2 \in ScrollCalls(view_state) :
              ~v2.panicked =>
                  /\ v2.cursor_pos = view_state.cursor_pos
                  /\ v2.selection_pos = view_state.selection_pos

\* a text with an edit to undo, and a click that moves the cursor off the
\* position selection_pos stays at
C35_Witness ==
    /\ ~panicked
    /\ can_undo(view_state)
    /\ view_state.undo_slice_edits # <<>>
    /\ modified(view_state)
    /\ \E v2 \in ClickCalls(view_state) :
          /\ ~v2.panicked
          /\ v2.cursor_pos # view_state.cursor_pos
          /\ v2.cursor_pos # v2.selection_pos
          /\ v2.selection_pos = view_state.selection_pos
          /\ KeepsTextAndHistory(view_state, v2)

----------------------------------------------------------------------------
(* C36  the cursor is on the screen after ensure_cursor_on_screen          *)

\* what the calls that end with ensure_cursor_on_screen leave of vs; left,
\* right, backspace and del return without it where they have nothing to do
EnsuringCalls(vs) ==
    {ctrl_left(vs), ctrl_right(vs), home(vs), end(vs), ctrl_home(vs),
     ctrl_end(vs), up(vs), down(vs), pg_up(vs), pg_down(vs), undo(vs),
     redo(vs), cut_selection(vs)}
        \cup (IF vs.cursor_pos > 0 THEN {left(vs)} ELSE {})
        \cup (IF vs.cursor_pos < len(vs.document) THEN {right(vs)} ELSE {})
        \cup (IF has_selection(vs) \/ vs.cursor_pos > 0
              THEN {backspace(vs)} ELSE {})
        \cup (IF has_selection(vs) \/ vs.cursor_pos < len(vs.document)
              THEN {del(vs)} ELSE {})
        \cup {insert_char(vs, c) : c \in Typed}
        \cup {paste(vs, s) : s \in TypedTexts(MaxPaste)}
        \cup {click(vs, x, y) : x \in ClickXs, y \in ClickYs}
        \cup {double_click(vs, x, y) : x \in ClickXs, y \in ClickYs}

\* the line of the cursor is within the window from its top to its bottom
CursorOnScreen(vs) ==
    LET at == pos_to_coord(vs, vs.cursor_pos)
    IN  /\ ~at.vs.panicked
        /\ 0 <= at.y
        /\ at.y + LineHeight(vs.text_format) <= vs.height

\* C36: with lines of one height and a window at least one line high, after
\* every call that ends with ensure_cursor_on_screen the y of the cursor
\* has 0 <= y and y + line_height <= height
C36_CursorOnScreen ==
    (~panicked /\ LineHeight(view_state.text_format) <= view_state.height) =>
        \A v2 \in EnsuringCalls(view_state) :
            ~v2.panicked => CursorOnScreen(v2)

\* the cursor on the last line the window shows, and a down() that takes it
\* to a line below the window: the viewport is anchored anew and the cursor
\* is on the screen
C36_Witness ==
    /\ ~panicked
    /\ CursorOnScreen(view_state)
    /\ ~down(view_state).panicked
    /\ down(view_state).cursor_pos > view_state.cursor_pos
    /\ down(view_state).anchor_pos # view_state.anchor_pos
    /\ down(view_state) \in EnsuringCalls(view_state)
    /\ CursorOnScreen(down(view_state))

----------------------------------------------------------------------------
(* C37, C38  how far scroll moves the text                                 *)

\* the largest number of lines one scroll call is told to move by
MaxDelta == 3
\* the deltas handed to scroll, in lines
AnyDeltas == (0 - MaxDelta)..MaxDelta

\* the y of the top of the first line of the document on the screen
first_line_top(vs) == pos_to_coord(vs, 0).y

\* the height of the lines from line_no on, each shaped for the window
RECURSIVE shaped_height(_, _)
shaped_height(vs, line_no) ==
    IF line_no < num_lines(vs.document)
    THEN layout_of(self("ensure_layout", <<vs, line_no>>), line_no).height
         + shaped_height(vs, line_no + 1)
    ELSE 0

\* C37: after scroll(delta), for a delta of either sign and any size, the
\* top of the first line of the document is at y <= 0
C37_ScrollNotAboveFirstLine ==
    ~panicked =>
        \A delta \in AnyDeltas :
            ~scroll(view_state, delta).panicked =>
                /\ ~pos_to_coord(scroll(view_state, delta), 0).vs.panicked
                /\ first_line_top(scroll(view_state, delta)) <= 0

\* a viewport scrolled down, the first line above the window, and a scroll
\* up by more lines than there are above: the first line stops at y = 0
C37_Witness ==
    /\ ~panicked
    /\ first_line_top(view_state) < 0
    /\ ~scroll(view_state, MaxDelta).panicked
    /\ first_line_top(scroll(view_state, MaxDelta)) = 0
    /\ ~scroll(view_state, 1).panicked
    /\ first_line_top(scroll(view_state, 1)) = 0

\* C38: if the shaped height of the whole document is at most the height of
\* the window, then after scroll(delta) for any delta the top of the first
\* line is still at y = 0
C38_ShortDocumentDoesNotScroll ==
    (~panicked /\ shaped_height(view_state, 0) <= view_state.height) =>
        \A delta \in AnyDeltas :
            ~scroll(view_state, delta).panicked =>
                first_line_top(scroll(view_state, delta)) = 0

----------------------------------------------------------------------------
(* C39  the guard is free where a handler hands control to the system      *)

\* the system calls from which my_window_proc is called for messages whose
\* handlers borrow the AppState: the message box, the file dialogs and
\* SendMessageW
Dispatching == {"MessageBoxW", "GetOpenFileNameW", "SendMessageW"}

\* the guard has fired in the step that left h: a borrow_mut found the
\* RefCell borrowed
GuardFired(h) ==
    /\ h.panicked
    /\ h.wnd_proc.frames # <<>>
    /\ top(h.wnd_proc.frames).pc = AlreadyBorrowed

====
